---- MODULE Spec2Model ----
(***************************************************************************)
(* Caching and credential-session core of the hanime-stremio addon.        *)
(*                                                                         *)
(* Several state machines share this module:                               *)
(*   SpecSession  UserApiManager (lib/clients/user_api_manager)            *)
(*   SpecCache    _cacheWrap and the four cacheWrap* facades (lib/cache)   *)
(*   SpecImage    the image proxy pipeline (fetchImage + ImageQueueService)*)
(*   SpecUserApi  HanimeUserApi: session refresh before a data call        *)
(*   SpecRetry    retryRequest and ImageFetchService.fetch                 *)
(*   SpecClear    UserApiManager with clearCache                           *)
(*   SpecHash     the derivation of the session-cache key                  *)
(*   SpecStream   StreamHandler.handle                                     *)
(*   SpecCatalogKey  the cache key of a catalog request                    *)
(*   SpecSessionClear    UserApiManager with clearAllCache / destroy       *)
(*   SpecImageLive       SpecImage with fetches and sleeps that end        *)
(*   SpecUserApiOverlap  overlapping getVideoDetails calls on one object   *)
(*   SpecPrefetch        CatalogPrefetchService.prefetchAll                *)
(*                                                                         *)
(* The runtime is a single-threaded event loop.  One action is one turn of *)
(* that loop: a callback together with the promise continuations it makes  *)
(* runnable.  An await on network I/O (a remote store, the upstream API,   *)
(* a timer) ends the turn; an await that only touches the in-memory store  *)
(* does not.                                                               *)
(***************************************************************************)
EXTENDS Integers, Sequences, FiniteSets, TLC

\* ------------------------------------------------------------------ bounds
NCallers == 3
MaxTime == 1
NWraps == 2
MaxCacheTime == 1
MaxFaults == 4
NReqs == 3
MaxImageTime == 1
MaxApiCalls == 3
MaxApiTicks == 3
MaxRetryCalls == 2
MaxClears == 1
MaxStreamReqs == 2
MaxOverlap == 2
MaxPrefetchCalls == 3
MaxPrefetchPages == 4
\* config.cache.prefetch.concurrency
PrefetchConcurrency == 2
\* one step of the HanimeUserApi clock, in milliseconds
ApiTickMs == 100500
\* one clock tick, in milliseconds
TickMs == 130000000

\* ------------------------------------------------------- program constants
\* part_000:338  (5 * 60 * 1000)
SessionTtlBufferMs == 300000
\* config.cache.ttl, in seconds (part_007:32-35)
CatalogTtlSec == 7200
MetaTtlSec == 129600
StreamTtlSec == 129600
ImageTtlSec == 30
\* new ImageCacheService(30 * 1000)  (proxy_image_middleware.js:21)
ImageCacheTtlMs == 30000
\* this.refreshBufferSeconds = 300  (hanime_user_api_client.js:21)
RefreshBufferSeconds == 300

VARIABLES
  now,          \* clock, in ticks
  \* ---- UserApiManager
  scfg,         \* cacheOn: config.cache.enabled; remoteOn: a remote store is configured;
                \* foreign: that store holds an entry left by another instance
  pc,           \* caller -> position inside getUserApi
  cred,         \* caller -> <<email, password>> it was called with
  got,          \* caller -> what its remote session-cache read returned
  awaiting,     \* caller -> the login whose promise it awaits (0: none)
  res,          \* caller -> what getUserApi settled with
  initPromises, \* this.initPromises: credentialsHash -> login (0: no entry)
  logins,       \* login -> state of that _initializeUserApi run
  nLogins,      \* upstream login calls issued so far
  sL1, sL2,     \* session cache stores: memory (L1), remote (L2)
  sawLogin,     \* history: caller -> a login for its hash was under way during its call
  settledAtCall \* history: caller -> logins already settled when it called

sessVars == <<scfg, pc, cred, got, awaiting, res, initPromises, logins, nLogins,
              sL1, sL2, sawLogin, settledAtCall>>

VARIABLES
  \* ---- lib/cache
  ccfg,         \* cacheOn: config.cache.enabled; remoteOn: config.cache.redisUrl is set;
                \* seeded: Redis still holds the entries of an earlier run of the addon
  wraps,        \* wrap call -> its position, inputs, outcome and history
  cL1, cL2,     \* remoteCache.stores: memory (L1) and Redis (L2), key -> entry
  pendingL2     \* l2Store.set calls issued and not yet executed by the remote store

cacheVars == <<ccfg, wraps, cL1, cL2, pendingL2>>

VARIABLES
  \* ---- image proxy (createImageProxyMiddleware)
  icfg,         \* queueEnabled: config.cache.imageProxy.enabled
  imageCache,   \* ImageCacheService: url -> entry
  inFlight,     \* ImageDeduplicationService: url -> fetch (0: no entry)
  items,        \* ImageQueueService.items
  isProcessing, \* ImageQueueService.isProcessing
  worker,       \* where processQueue is suspended
  reqs,         \* fetchImage call -> its position, url, outcome and history
  fetches,      \* fetchImageWithCache call -> its state
  nFetches      \* upstream image fetches started so far

imgVars == <<icfg, imageCache, inFlight, items, isProcessing, worker, reqs, fetches, nFetches>>

VARIABLES
  \* ---- HanimeUserApi (one object and the getVideoDetails calls made on it)
  uapi,         \* the object: client.sessionToken, email, password, sessionTokenExpireTimeUnix
  upc,          \* where the current getVideoDetails call is suspended
  ucall,        \* history of the current (or last) call: refresh and data outcome
  uLogins,      \* upstream logins this object has issued
  uCalls,       \* getVideoDetails calls made so far
  uNowMs,       \* Date.now() as this object sees it
  ucs           \* getVideoDetails calls that overlap on the object: call ->
                \* position, the refresh login it issued and what that answered

apiVars == <<uapi, upc, ucall, uLogins, uCalls, uNowMs, ucs>>

VARIABLES
  \* ---- retryRequest / ImageFetchService.fetch (one call)
  rq,             \* the call: service, maxRetries, loop variable, position, history
  failedRequests, \* ImageFetchService.failedRequests.get(url), in seconds (0: no entry)
  rnow,           \* Date.now() as these calls see it, in seconds
  last403         \* history: when the CDN last answered 403 for the url, no
                  \* fetch of it having succeeded since (0: never)

retryVars == <<rq, failedRequests, rnow, last403>>

VARIABLES
  \* ---- UserApiManager.clearCache
  pendingDel,     \* credential hashes whose remote sessionCache.del is under way
  cleared         \* history of the clearCache calls

clearVars == <<pendingDel, cleared>>

VARIABLES
  \* ---- _getCredentialsHash / _getCacheKey applied to two credential pairs
  hpairs,         \* the two (email, password) pairs
  hkeys,          \* the cache keys derived from them (<<>>: not yet derived)
  \* ---- buildCacheKey applied to two catalog requests
  creqs,          \* the two requests: catalog id and extra
  ckeys,          \* the cache keys derived from them (<<>>: not yet derived)
  \* ---- CatalogPrefetchService
  pfsvc,          \* the service: isPrefetching and prefetchStats
  pfcalls         \* prefetchAll call -> its position and what it has done

prefetchVars == <<pfsvc, pfcalls>>
hashVars == <<hpairs, hkeys, creqs, ckeys, prefetchVars>>

VARIABLES
  \* ---- StreamHandler.handle (one request at a time)
  stcfg,          \* cacheOn: config.cache.enabled; seeded: the stream cache
                  \* holds entries of earlier requests
  sreq,           \* the request: arguments, position, outcome and history
  streamStore     \* the stream cache: id -> entry (key `stream:${id}`)

streamVars == <<stcfg, sreq, streamStore>>

extVars == <<apiVars, retryVars, clearVars, hashVars, streamVars>>
vars == <<now, sessVars, cacheVars, imgVars, extVars>>

Callers == 1..NCallers
LoginIds == 1..NCallers

NowMs == now * TickMs
NowSec == NowMs \div 1000

\* ----------------------------------------------------------- credentials
ValidCreds == {<<"a", "p">>, <<"a", "q">>}
InvalidCreds == {<<"", "p">>, <<"a", "">>}
CredPairs == ValidCreds \cup InvalidCreds
NoCred == <<"", "">>

\* _getCredentialsHash: sha256 of `${email}:${password}`.  SHA-256 is taken
\* to be injective, so the digest is represented by the string it is fed.
_getCredentialsHash(email, password) == email \o ":" \o password

HashOf(c) == _getCredentialsHash(c[1], c[2])
Hashes == {HashOf(c) : c \in CredPairs}

\* the upstream account behind an email: whether it is premium
IsPremium(email) == email = "a"

\* what the upstream may answer for the expiry, in seconds from now
ExpiryOffsetsSec == {300, 400}

\* ------------------------------------------------------------ the stores
NoEntry == [present |-> FALSE, token |-> 0, expiresAt |-> 0, email |-> "",
            isPremium |-> FALSE, exp |-> 0]

\* a store entry is returned until its TTL has passed
Live(slot) == slot.present /\ ~(NowMs > slot.exp)

\* ----------------------------------------------------------- the results
\* A HanimeUserApi object is its token, email, password and expiry (Unix
\* seconds).  stale: the caller was handed the outcome of a login that had
\* settled before the caller called
NoRes == [kind |-> "none", token |-> 0, obj |-> 0, email |-> "", password |-> "",
          expSec |-> 0, stale |-> FALSE]
InvalidRes == [NoRes EXCEPT !.kind = "invalid"]
\* the HanimeUserApi object created by login L (obj = L), whose record is rec,
\* and the rejection of L
LoginRes(L, rec) == [kind |-> "ok", token |-> L, obj |-> L, email |-> rec.c[1],
                     password |-> rec.c[2], expSec |-> rec.expSec, stale |-> FALSE]
ErrRes(L) == [NoRes EXCEPT !.kind = "err", !.token = L]
\* new HanimeUserApi(cached.sessionToken, cached.email, password,
\* cached.expiresAt / 1000): a new object (obj = -p)
CachedRes(p, slot, c) == [kind |-> "ok", token |-> slot.token, obj |-> 0 - p,
                          email |-> slot.email, password |-> c[2],
                          expSec |-> slot.expiresAt \div 1000, stale |-> FALSE]

\* dup: the initiator's call overlapped an earlier login for the same hash
NoLogin == [st |-> "unused", h |-> "", by |-> 0, c |-> NoCred, expSec |-> 0, ttl |-> 0,
            dup |-> FALSE]

\* a failed remote read that is taken for an entry
ReadErrServed == [present |-> TRUE, token |-> 0 - 1, expiresAt |-> 1000, email |-> "a",
                  isPremium |-> TRUE, exp |-> TickMs]

\* a remote read that failed
ReadErr == [NoEntry EXCEPT !.token = 0 - 1]

\* an entry another instance of the addon left in the shared remote store
ForeignEntry == [present |-> TRUE, token |-> 0, expiresAt |-> 1000, email |-> "a",
                 isPremium |-> TRUE, exp |-> TickMs]

Settled(L) == logins[L].st \in {"ok", "fail"}

\* ============================================================ lib/cache
\* ---------------------------------------------------------- JS values
\* A value is described by what _shouldCache and the callers look at:
\* t: null / undefined / object / array; n: Object.keys(v).length;
\* metaNull: v.meta === null; id: which payload it is (0: none)
JsVal(t, n, metaNull, id) == [t |-> t, n |-> n, metaNull |-> metaNull, id |-> id]
Null == JsVal("null", 0, FALSE, 0)
Undefined == JsVal("undefined", 0, FALSE, 0)
EmptyObject == JsVal("object", 0, FALSE, 0)
EmptyArray == JsVal("array", 0, FALSE, 0)
\* a non-empty result object / array produced by computation id
Payload(t, id) == JsVal(t, 1, FALSE, id)

\* emptyResponse(type)
emptyResponse(type) ==
  CASE type = "catalog" -> JsVal("object", 1, FALSE, 0)   \* { metas: [] }
    [] type = "meta" -> JsVal("object", 1, TRUE, 0)       \* { meta: null }
    [] type = "stream" -> JsVal("object", 1, FALSE, 0)    \* { streams: [] }
    [] OTHER -> EmptyObject

\* typeof v === 'object' for a non-null v
TypeofObject(v) == v.t \in {"object", "array"}

\* ------------------------------------------------- facades, keys, TTLs
Facades == {"catalog", "meta", "stream", "image"}

\* facades that all build their keys with one prefix
KeyPrefixShared(f) == "cache"

\* META_KEY_PREFIX, CATALOG_KEY_PREFIX, STREAM_KEY_PREFIX, BINARY_IMAGES_KEY_PREFIX
KeyPrefix(f) == IF f = "image" THEN "binary-images" ELSE f

\* `${PREFIX}:${id}`; every facade is called with the one id "id"
KeyOf(f) == KeyPrefix(f) \o ":" \o "id"
CacheKeys == {KeyOf(f) : f \in Facades}

\* CATALOG_TTL, META_TTL, STREAM_TTL, BINARY_IMAGES_TTL (milliseconds)
TtlOf(f) ==
  CASE f = "catalog" -> CatalogTtlSec * 1000
    [] f = "meta" -> MetaTtlSec * 1000
    [] f = "stream" -> StreamTtlSec * 1000
    [] f = "image" -> ImageTtlSec * 1000

\* The cache object a facade hands to _cacheWrap: null when caching is off,
\* the { stores } object of _createMultiCache for catalog/meta/stream, and
\* the Keyv instance imageCache for binary images.
CacheFor(f) ==
  IF ~ccfg.cacheOn THEN "null" ELSE IF f = "image" THEN "keyv" ELSE "multi"

\* const stores = cache.stores || []: a Keyv instance has no stores property
StoresLen(f) ==
  CASE CacheFor(f) = "multi" -> IF ccfg.remoteOn THEN 2 ELSE 1
    [] OTHER -> 0

\* stores[0] and stores[1] are defined
HasL1(f) == StoresLen(f) >= 1
HasL2(f) == StoresLen(f) >= 2

\* ------------------------------------------------------------- stores
NoSlot == [present |-> FALSE, val |-> Undefined, exp |-> 0]
Slot(val, ttl) == [present |-> TRUE, val |-> val, exp |-> NowMs + ttl]

\* what an earlier run of the addon stored in Redis for catalog/meta/stream
SeedSlot(k) == [present |-> TRUE, val |-> Payload("object", NWraps + 1), exp |-> CatalogTtlSec * 1000]

\* ------------------------------------------------------------ wrap calls
Wraps == 1..NWraps
StoreOps == {"l1get", "l2get", "promote", "l1set", "l2set"}

NoWrapRes == [kind |-> "none", val |-> Undefined, src |-> ""]
\* invoked: computeFn was called; wrote: the wrap stored its value in L1;
\* faults: the store operations of this wrap that failed; readL2: it read
\* the remote store; promoted: its promotion write succeeded; after: the
\* wraps for the same key that had completed, no longer than the TTL ago,
\* when it was called
NoWrap == [pc |-> "idle", f |-> "", key |-> "", up |-> "", invoked |-> FALSE,
           wrote |-> FALSE, faults |-> {}, readL2 |-> FALSE, promoted |-> FALSE,
           doneAt |-> 0, after |-> {}, res |-> NoWrapRes]

IdleCache ==
  /\ ccfg = [cacheOn |-> FALSE, remoteOn |-> FALSE, seeded |-> FALSE]
  /\ wraps = [w \in Wraps |-> NoWrap]
  /\ cL1 = [k \in CacheKeys |-> NoSlot]
  /\ cL2 = [k \in CacheKeys |-> NoSlot]
  /\ pendingL2 = {}

\* ========================================================== image proxy
Urls == {"u", "v"}
Reqs == 1..NReqs
FetchIds == 1..NReqs

\* by: the fetch that produced the bytes
NoImg == [present |-> FALSE, by |-> 0, expires |-> 0]
\* kind/by: how the call settled and which fetch produced what it got;
\* overlap: the calls for the same url whose lifetime overlapped this one's
NoReq == [pc |-> "idle", url |-> "", awaiting |-> 0, kind |-> "none", by |-> 0,
          overlap |-> {}]
NoFetch == [st |-> "unused", url |-> ""]
IdleWorker == [pc |-> "idle", item |-> 0, fetch |-> 0]

ImageStart ==
  /\ imageCache = [u \in Urls |-> NoImg]
  /\ inFlight = [u \in Urls |-> 0]
  /\ items = <<>>
  /\ isProcessing = FALSE
  /\ worker = IdleWorker
  /\ reqs = [r \in Reqs |-> NoReq]
  /\ fetches = [F \in FetchIds |-> NoFetch]
  /\ nFetches = 0

IdleImage == icfg = [queueEnabled |-> TRUE] /\ ImageStart

\* ----------------------------------------------------------- HanimeUserApi
\* constructor(sessionToken, email, password, sessionTokenExpireTimeUnix);
\* null is 0 for the token and the expiry and "" for the credentials
UserApi(sessionToken, email, password, sessionTokenExpireTimeUnix) ==
  [token |-> sessionToken, email |-> email, password |-> password,
   expSec |-> sessionTokenExpireTimeUnix]

\* what the object may be constructed with (expiry in Unix seconds)
InitTokens == {0, 1}
InitApiCreds == {<<"a", "p">>, <<"", "">>}
InitExpirySec == {0, 100, 300, 301, 400}
\* what a login may answer for the expiry, in seconds from now
RefreshOffsetsSec == {200, 3600}

\* refresh: "none", "ok", "fail"; newExp: the expiry a successful refresh
\* returned; data: the answer of client.getHentaiVideo ("none", "ok", "fail");
\* outcome: how getVideoDetails settled ("none", "resolved", "rejected")
NoCall == [refresh |-> "none", newExp |-> 0, data |-> "none", outcome |-> "none"]

\* login: the number of the refresh login the call issued (0: none);
\* newExp: the expiry that login answered
NoOverlapCall == [pc |-> "idle", login |-> 0, newExp |-> 0]

IdleApi ==
  /\ uapi = UserApi(0, "", "", 0)
  /\ upc = "idle"
  /\ ucall = NoCall
  /\ uLogins = 0
  /\ uCalls = 0
  /\ uNowMs = 0
  /\ ucs = [c \in 1..MaxOverlap |-> NoOverlapCall]

\* ------------------------------------------------------- retried requests
\* retryRequest of HanimeApiClient ("api") and ImageFetchService.fetch ("image")
RetryServices == {"api", "image"}
\* maxRetries as passed by the callers; 2 is the default
MaxRetriesValues == {0, 1, 2}
\* error.response?.status of a failed request (0: no response, e.g. a
\* timeout), and 200 for an answer
Statuses == {200, 403, 500, 0}

\* call: the number of the call; attempt: the loop variable; attempts:
\* requests issued; statuses: what the requests answered; outcome: "none",
\* "returned", "thrown"; thrown: the status of the error that was rethrown
NoRetry == [call |-> 0, svc |-> "", maxRetries |-> 0, attempt |-> 0, pc |-> "idle",
            attempts |-> 0, statuses |-> <<>>, outcome |-> "none", thrown |-> 0]

IdleRetry ==
  /\ rq = NoRetry
  /\ failedRequests = 0
  /\ rnow = 1
  /\ last403 = 0

\* -------------------------------------------------------------- clearCache
\* n: clearCache calls so far; h: the hash of the last one; toks: the session
\* tokens the cache held for h when it was called; idle: the callers that
\* had not yet called getUserApi then
NoClear == [n |-> 0, h |-> "", toks |-> {}, idle |-> {}]

IdleClear ==
  /\ pendingDel = {}
  /\ cleared = NoClear

\* ---------------------------------------------------------- key derivation
\* emails and passwords as getUserApi accepts them: any non-empty strings
CredStrings == {"a", "b", "c", "a:b", "b:c"}

\* args.extra: an object, given by its properties in insertion order (the
\* order of the parameters in the request path), each a <<name, value>>
CatalogExtras ==
  LET ExtraProps == {<<"search", "x">>, <<"genre", "y">>, <<"genre", "z">>, <<"skip", "20">>}
  IN {<<>>} \cup {<<e>> : e \in ExtraProps}
            \cup {p \in {<<e, g>> : e \in ExtraProps, g \in ExtraProps} : p[1][1] # p[2][1]}

\* -------------------------------------------------- CatalogPrefetchService
\* prefetchStats as the constructor and prefetchAll set it; lastPrefetch is
\* the number of the prefetchAll call that set it (0: null)
NoStats(lastPrefetch) ==
  [totalPages |-> 0, catalogsPrefetched |-> 0, errors |-> 0, lastPrefetch |-> lastPrefetch]

\* skipped: the call returned at the isPrefetching test; reqs: the upstream
\* search requests it issued; page, totalPages, hasMore: the locals of its
\* prefetchCatalog; threw: its prefetchCatalog threw
NoPrefetchCall == [pc |-> "idle", skipped |-> FALSE, reqs |-> 0, page |-> 0,
                   totalPages |-> 0, hasMore |-> TRUE, threw |-> FALSE]

IdlePrefetch ==
  /\ pfsvc = [isPrefetching |-> FALSE, prefetchStats |-> NoStats(0)]
  /\ pfcalls = [c \in 1..MaxPrefetchCalls |-> NoPrefetchCall]

IdleHash ==
  /\ hpairs = <<NoCred, NoCred>>
  /\ hkeys = <<>>
  /\ creqs = <<>>
  /\ ckeys = <<>>
  /\ IdlePrefetch

\* ----------------------------------------------------------- StreamHandler
\* args.id, split at ':' (<<>>: no id); "hanime" is the addon prefix
StreamIds == {<<>>, <<"tt1">>, <<"hanime", "v">>, <<"hanime", "series", "s">>,
              <<"hanime", "series", "s", "e">>}
\* args.config.email and args.config.password ("": missing)
StreamCreds == {<<"a", "p">>, <<"b", "p">>, <<"", "p">>, <<"a", "">>}

\* what handle resolved with: val, and decorated when cacheMaxAge and
\* staleRevalidate were added to it
NoStreamResult == [kind |-> "none", val |-> Undefined, decorated |-> FALSE]

\* n: the number of the request; auth: how getUserApi settled ("none", "ok",
\* "fail"); reads, writes: accesses to the stream cache made for the
\* request; before: the stream cache when the request arrived; emails:
\* history, the email of every request so far, by request number
NoStreamReq == [n |-> 0, pc |-> "idle", id |-> <<>>, email |-> "", password |-> "",
                auth |-> "none", reads |-> 0, writes |-> 0, result |-> NoStreamResult,
                before |-> <<>>, emails |-> <<>>]

IdleStream ==
  /\ stcfg = [cacheOn |-> FALSE, seeded |-> FALSE]
  /\ sreq = NoStreamReq
  /\ streamStore = [id \in StreamIds |-> NoSlot]

\* the subsystems declared after the image proxy, at rest
IdleExt ==
  /\ IdleApi
  /\ IdleRetry
  /\ IdleClear
  /\ IdleHash
  /\ IdleStream

\* ---------------------------------------------------------------- Init
\* everything of a new UserApiManager but its configuration
SessionStart ==
  /\ pc = [p \in Callers |-> "idle"]
  /\ cred = [p \in Callers |-> NoCred]
  /\ got = [p \in Callers |-> NoEntry]
  /\ awaiting = [p \in Callers |-> 0]
  /\ res = [p \in Callers |-> NoRes]
  /\ initPromises = [h \in Hashes |-> 0]
  /\ logins = [L \in LoginIds |-> NoLogin]
  /\ nLogins = 0
  /\ sL1 = [h \in Hashes |-> NoEntry]
  /\ sL2 = [h \in Hashes |-> IF scfg.foreign /\ h = "a:p" THEN ForeignEntry ELSE NoEntry]
  /\ sawLogin = [p \in Callers |-> FALSE]
  /\ settledAtCall = [p \in Callers |-> {}]

IdleSession ==
  /\ scfg = [cacheOn |-> FALSE, remoteOn |-> FALSE, foreign |-> FALSE]
  /\ SessionStart

InitSession ==
  /\ now = 0
  /\ scfg \in {[cacheOn |-> FALSE, remoteOn |-> FALSE, foreign |-> FALSE],
               [cacheOn |-> TRUE, remoteOn |-> FALSE, foreign |-> FALSE],
               [cacheOn |-> TRUE, remoteOn |-> TRUE, foreign |-> FALSE],
               [cacheOn |-> TRUE, remoteOn |-> TRUE, foreign |-> TRUE]}
  /\ SessionStart
  /\ IdleCache
  /\ IdleImage
  /\ IdleExt

\* ------------------------------------------------- variants of the ledger
\* an in-flight check that never finds a promise
HasInitPromiseNever(h) == FALSE

\* a marker that is released only after a successful login
ReleaseMarkerOnSuccess(ip, h, ok) == IF ok THEN [ip EXCEPT ![h] = 0] ELSE ip

\* a marker that is released only after a failed login
ReleaseMarkerOnFailure(ip, h, ok) == IF ok THEN ip ELSE [ip EXCEPT ![h] = 0]

\* an expiry test that never finds a cached session expired
CachedExpiredNever(slot) == FALSE

\* a TTL computed without the five minute buffer
SessionTtlNoBuffer(expSec) == (expSec * 1000) - NowMs

\* an argument check that looks at the email only
MissingCredentialsEmailOnly(c) == c[1] = ""

\* a stored payload that carries a password next to the session data
SessionDataWithPassword(token, expSec, email, ttl) ==
  [present |-> TRUE, token |-> token, expiresAt |-> expSec * 1000, email |-> email,
   isPremium |-> IsPremium(email), exp |-> NowMs + ttl, password |-> "p"]

\* ------------------------------------------------- getUserApi, in pieces
\* sessionData as _initializeUserApi builds it, with the store's own expiry
SessionData(token, expSec, email, ttl) ==
  [present |-> TRUE, token |-> token, expiresAt |-> expSec * 1000, email |-> email,
   isPremium |-> IsPremium(email), exp |-> NowMs + ttl]

\* !email || !password
MissingCredentials(c) == c[1] = "" \/ c[2] = ""

\* TTL of a new session: expiry minus now minus the five minute buffer
SessionTtl(expSec) == (expSec * 1000) - NowMs - SessionTtlBufferMs

\* this.initPromises.has(credentialsHash)
HasInitPromise(h) == initPromises[h] # 0

\* finally { this.initPromises.delete(credentialsHash) } of the initiator;
\* ok tells whether the login succeeded (the code does not look at it)
ReleaseMarker(ip, h, ok) == [ip EXCEPT ![h] = 0]

\* a waiter's catch that empties the whole ledger
WaiterCatchAll(ip, h) == [k \in DOMAIN ip |-> 0]

\* catch (error) { this.initPromises.delete(credentialsHash); throw error }
\* of a caller that awaited the shared promise
WaiterCatch(ip, h) == [ip EXCEPT ![h] = 0]

\* cached.expiresAt && Date.now() > cached.expiresAt
CachedExpired(slot) == slot.expiresAt # 0 /\ NowMs > slot.expiresAt

\* The callers a settling login L wakes: its initiator and its waiters.
WokenBy(L) == {p \in Callers : awaiting[p] = L /\ pc[p] \in {"initiating", "waiting"}}

Unsettled(rec) == rec.st \in {"inflight", "setSent"}

\* a login for hash h, not started by p, is under way
LoginUnderWay(lg, h, p) == \E L \in LoginIds : Unsettled(lg[L]) /\ lg[L].h = h /\ lg[L].by # p

\* Lines 131-161, reached with no cached session: await the promise in the
\* ledger, or start _initializeUserApi and put its promise into the ledger.
\* seen: the logins that had settled when p called; saw: sawLogin of p.
JoinOrStart(p, c, seen, saw) ==
  LET h == HashOf(c) IN
  IF HasInitPromise(h)
  THEN LET L == initPromises[h] IN
       IF Settled(L)
       THEN \* the promise has already settled: the await yields at once
            /\ pc' = [pc EXCEPT ![p] = "done"]
            /\ res' = [res EXCEPT ![p] =
                         [(IF logins[L].st = "ok" THEN LoginRes(L, logins[L]) ELSE ErrRes(L))
                            EXCEPT !.stale = L \in seen]]
            /\ initPromises' = IF logins[L].st = "ok" THEN initPromises
                               ELSE WaiterCatch(initPromises, h)
            /\ UNCHANGED <<awaiting, logins, nLogins>>
       ELSE /\ pc' = [pc EXCEPT ![p] = "waiting"]
            /\ awaiting' = [awaiting EXCEPT ![p] = L]
            /\ UNCHANGED <<initPromises, logins, nLogins, res>>
  ELSE LET L == nLogins + 1 IN
       /\ nLogins' = L
       /\ logins' = [logins EXCEPT ![L] =
                       [st |-> "inflight", h |-> h, by |-> p, c |-> c, expSec |-> 0,
                        ttl |-> 0, dup |-> saw \/ LoginUnderWay(logins, h, p)]]
       /\ initPromises' = [initPromises EXCEPT ![h] = L]
       /\ awaiting' = [awaiting EXCEPT ![p] = L]
       /\ pc' = [pc EXCEPT ![p] = "initiating"]
       /\ UNCHANGED res

\* _getCachedUserApi, from the point where sessionCache.get has answered slot.
\* A live, unexpired entry is the result; an expired one is deleted first.
AfterCacheGet(p, c, slot, seen, saw) ==
  LET h == HashOf(c) IN
  IF slot.present
  THEN IF CachedExpired(slot)
       THEN \* await this.sessionCache.del(cacheKey)
            /\ sL1' = [sL1 EXCEPT ![h] = NoEntry]
            /\ IF scfg.remoteOn
               THEN /\ pc' = [pc EXCEPT ![p] = "delSent"]
                    /\ UNCHANGED <<awaiting, initPromises, logins, nLogins, res>>
               ELSE JoinOrStart(p, c, seen, saw)
       ELSE /\ pc' = [pc EXCEPT ![p] = "done"]
            /\ res' = [res EXCEPT ![p] = CachedRes(p, slot, c)]
            /\ UNCHANGED <<awaiting, initPromises, logins, nLogins, sL1>>
  ELSE JoinOrStart(p, c, seen, saw) /\ UNCHANGED sL1

\* The history variables after a step: a caller that is not inside a call
\* carries none; a caller inside a call notes a login under way for its hash.
History(p, seen) ==
  /\ sawLogin' = [r \in Callers |->
        IF pc'[r] \in {"idle", "done"} THEN FALSE
        ELSE sawLogin[r] \/ LoginUnderWay(logins', HashOf(cred'[r]), r)
                         \/ LoginUnderWay(logins, HashOf(cred'[r]), r)]
  /\ settledAtCall' = [r \in Callers |->
        IF pc'[r] \in {"idle", "done"} THEN {}
        ELSE IF r = p THEN seen ELSE settledAtCall[r]]

\* getUserApi(email, password), up to its first network await
Call(p, c) ==
  /\ pc[p] = "idle"
  /\ \A q \in Callers : q < p => pc[q] # "idle"
  /\ cred' = [cred EXCEPT ![p] = c]
  /\ LET seen == {L \in LoginIds : Settled(L)} IN
     /\ IF MissingCredentials(c)
        THEN \* throw new Error('Email and password are required')
             /\ pc' = [pc EXCEPT ![p] = "done"]
             /\ res' = [res EXCEPT ![p] = InvalidRes]
             /\ UNCHANGED <<awaiting, initPromises, logins, nLogins, sL1>>
        ELSE IF ~scfg.cacheOn
        THEN JoinOrStart(p, c, seen, FALSE) /\ UNCHANGED sL1
        ELSE IF Live(sL1[HashOf(c)])
        THEN AfterCacheGet(p, c, sL1[HashOf(c)], seen, FALSE)
        ELSE IF scfg.remoteOn
        THEN \* the memory store missed: the remote store is asked
             /\ pc' = [pc EXCEPT ![p] = "lookupSent"]
             /\ UNCHANGED <<awaiting, initPromises, logins, nLogins, res, sL1>>
        ELSE JoinOrStart(p, c, seen, FALSE) /\ UNCHANGED sL1
     /\ History(p, seen)
  /\ UNCHANGED <<cacheVars, imgVars, extVars>>
  /\ UNCHANGED <<now, scfg, got, sL2>>

\* the remote store executes the read of a caller's sessionCache.get
RemoteGetExec(p, ok) ==
  /\ pc[p] = "lookupSent"
  /\ pc' = [pc EXCEPT ![p] = "lookupGot"]
  /\ got' = [got EXCEPT ![p] = IF ~ok THEN ReadErr
                                ELSE IF Live(sL2[HashOf(cred[p])])
                                THEN sL2[HashOf(cred[p])] ELSE NoEntry]
  /\ UNCHANGED <<cacheVars, imgVars, extVars>>
  /\ UNCHANGED <<now, scfg, cred, awaiting, res, initPromises, logins, nLogins,
                 sL1, sL2, sawLogin, settledAtCall>>

\* the answer arrives: _getCachedUserApi resumes (a failed read is caught and
\* gives null), then getUserApi goes on to the in-flight check
RemoteGetReturn(p) ==
  /\ pc[p] = "lookupGot"
  /\ AfterCacheGet(p, cred[p], got[p], settledAtCall[p], sawLogin[p])
  /\ got' = [got EXCEPT ![p] = NoEntry]
  /\ UNCHANGED <<cacheVars, imgVars, extVars>>
  /\ UNCHANGED <<now, scfg, cred, sL2>>
  /\ History(p, settledAtCall[p])

\* the awaited sessionCache.del of an expired entry answers (an error is
\* caught by _getCachedUserApi): null is returned and getUserApi goes on
DelReturn(p, ok) ==
  /\ pc[p] = "delSent"
  /\ sL2' = IF ok THEN [sL2 EXCEPT ![HashOf(cred[p])] = NoEntry] ELSE sL2
  /\ JoinOrStart(p, cred[p], settledAtCall[p], sawLogin[p])
  /\ UNCHANGED <<cacheVars, imgVars, extVars>>
  /\ UNCHANGED <<now, scfg, cred, got, sL1>>
  /\ History(p, settledAtCall[p])

\* The promise of login L settles: the finally block releases the marker,
\* then the initiator and every waiter resume with the session or the error.
Finish(L, ok, rec) ==
  LET h == logins[L].h
      woken == WokenBy(L)
      released == ReleaseMarker(initPromises, h, ok)
  IN /\ logins' = [logins EXCEPT ![L] = [rec EXCEPT !.st = IF ok THEN "ok" ELSE "fail"]]
     /\ initPromises' = IF ~ok /\ (\E p \in woken : pc[p] = "waiting")
                        THEN WaiterCatch(released, h) ELSE released
     /\ pc' = [p \in Callers |-> IF p \in woken THEN "done" ELSE pc[p]]
     /\ res' = [p \in Callers |-> IF p \in woken
                                   THEN (IF ok THEN LoginRes(L, rec) ELSE ErrRes(L))
                                   ELSE res[p]]

\* userApi.login answers inside _initializeUserApi
LoginResponse(L, ok, off) ==
  /\ logins[L].st = "inflight"
  /\ LET h == logins[L].h
         expSec == NowSec + off
         ttl == SessionTtl(expSec)
         rec == [logins[L] EXCEPT !.expSec = expSec, !.ttl = ttl]
     IN IF ~ok
        THEN Finish(L, FALSE, logins[L]) /\ UNCHANGED sL1
        ELSE IF scfg.cacheOn /\ ttl > 0
        THEN \* await this.sessionCache.set(cacheKey, sessionData, ttl)
             /\ sL1' = [sL1 EXCEPT ![h] = SessionData(L, expSec, logins[L].c[1], ttl)]
             /\ IF scfg.remoteOn
                THEN /\ logins' = [logins EXCEPT ![L] = [rec EXCEPT !.st = "setSent"]]
                     /\ UNCHANGED <<pc, res, initPromises>>
                ELSE Finish(L, TRUE, rec)
        ELSE Finish(L, TRUE, rec) /\ UNCHANGED sL1
  /\ UNCHANGED <<cacheVars, imgVars, extVars>>
  /\ UNCHANGED <<now, scfg, cred, got, awaiting, nLogins, sL2>>
  /\ History(0, {})

\* the remote write of sessionCache.set answers; a failure is caught
\* ("Failed to store user session in cache (non-fatal)")
SetReturn(L, ok) ==
  /\ logins[L].st = "setSent"
  /\ sL2' = IF ok
            THEN [sL2 EXCEPT ![logins[L].h] =
                    SessionData(L, logins[L].expSec, logins[L].c[1], logins[L].ttl)]
            ELSE sL2
  /\ Finish(L, TRUE, logins[L])
  /\ UNCHANGED <<cacheVars, imgVars, extVars>>
  /\ UNCHANGED <<now, scfg, cred, got, awaiting, nLogins, sL1>>
  /\ History(0, {})

\* time passes
TickSession ==
  /\ now < MaxTime
  /\ now' = now + 1
  /\ UNCHANGED <<sessVars, cacheVars, imgVars, extVars>>

NextSession ==
  \/ \E p \in Callers, c \in CredPairs : Call(p, c)
  \/ \E p \in Callers, ok \in BOOLEAN : RemoteGetExec(p, ok)
  \/ \E p \in Callers : RemoteGetReturn(p)
  \/ \E p \in Callers, ok \in BOOLEAN : DelReturn(p, ok)
  \/ \E L \in LoginIds, ok \in BOOLEAN, off \in ExpiryOffsetsSec : LoginResponse(L, ok, off)
  \/ \E L \in LoginIds, ok \in BOOLEAN : SetReturn(L, ok)
  \/ TickSession

SpecSession == InitSession /\ [][NextSession]_vars

\* ------------------------------------------ properties of UserApiManager
\* C1: starting with no cached session and no login in flight, getUserApi
\* calls for the same credentials that overlap in time cause one upstream
\* login call: no caller whose call overlapped a login for its credentials
\* starts a further login for them.
C1_OneLoginForOverlappingCalls ==
  ~scfg.foreign => \A L \in LoginIds : ~logins[L].dup

\* C2: in every reachable state, for any fixed (email, password) pair at most
\* one upstream login call started by getUserApi is in flight.
C2_AtMostOneLoginInFlight ==
  \A L, M \in LoginIds :
    (logins[L].st = "inflight" /\ logins[M].st = "inflight" /\ logins[L].h = logins[M].h)
      => L = M

\* one caller performs the login, a second waits on the shared promise and a
\* third is still in its cache lookup, all for the same pair
C2_Witness ==
  \E p, q, r \in Callers :
    /\ pc[p] = "initiating" /\ logins[awaiting[p]].st = "inflight"
    /\ pc[q] = "waiting" /\ awaiting[q] = awaiting[p]
    /\ pc[r] \in {"lookupSent", "lookupGot"}
    /\ cred[q] = cred[p] /\ cred[r] = cred[p]

\* C3: a failed login is not remembered: the initiator and every waiter get
\* its error, no store holds an entry of it, its marker is gone, and no later
\* call is answered with the old rejection.
C3_FailedLoginNotRemembered ==
  /\ \A L \in LoginIds : logins[L].st = "fail" =>
       /\ \A p \in Callers : awaiting[p] = L => pc[p] = "done" /\ res[p] = ErrRes(L)
       /\ \A h \in Hashes : sL1[h].token # L /\ sL2[h].token # L
       /\ initPromises[logins[L].h] # L
  /\ \A p \in Callers : ~res[p].stale

\* a login failed with a waiter on it, both got the error, and a later call
\* with the same credentials has started a new login
C3_Witness ==
  \E L, M \in LoginIds, p \in Callers :
    /\ L < M /\ logins[L].st = "fail"
    /\ logins[M].st # "unused" /\ logins[M].h = logins[L].h /\ ~logins[M].dup
    /\ p # logins[L].by /\ awaiting[p] = L /\ res[p] = ErrRes(L)
    /\ res[logins[L].by] = ErrRes(L)

\* C11: when the session cache answers a lookup with an entry whose expiresAt
\* is not in the past, getUserApi resolves in that step with a session made of
\* the entry's token, email and expiry and the caller's password, and no login
\* is started; when the entry's expiresAt is in the past, the entry is removed
\* from the memory store, its removal is awaited where a remote store exists,
\* and the call goes on to the login path instead of returning that entry.
C11_CachedSessionReuse ==
  [][\A p \in Callers :
       LET h == HashOf(cred'[p])
           fromL1 == /\ pc[p] = "idle" /\ pc'[p] # "idle" /\ scfg.cacheOn
                     /\ cred'[p] \in ValidCreds
                     /\ sL1[h].present /\ ~(NowMs > sL1[h].exp)
           fromL2 == pc[p] = "lookupGot" /\ pc'[p] # "lookupGot" /\ got[p].present
           slot == IF pc[p] = "idle" THEN sL1[h] ELSE got[p]
           loginPath == \/ pc'[p] \in {"initiating", "waiting"} /\ awaiting'[p] # 0
                        \/ pc'[p] = "done" /\ res'[p].obj >= 0
                             /\ res'[p].kind \in {"ok", "err"}
       IN /\ (fromL1 \/ fromL2) =>
               IF slot.expiresAt # 0 /\ NowMs > slot.expiresAt
               THEN /\ ~sL1'[h].present
                    /\ IF scfg.remoteOn THEN pc'[p] = "delSent" ELSE loginPath
               ELSE /\ pc'[p] = "done"
                    /\ res'[p].kind = "ok"
                    /\ res'[p].token = slot.token
                    /\ res'[p].email = slot.email
                    /\ res'[p].expSec * 1000 = slot.expiresAt
                    /\ res'[p].password = cred'[p][2]
                    /\ nLogins' = nLogins /\ logins' = logins
                    /\ initPromises' = initPromises
          /\ (pc[p] = "delSent" /\ pc'[p] # "delSent") => loginPath
    ]_vars

\* one caller was handed a session rebuilt from the cache while another
\* caller's lookup found an expired entry and awaits its removal
C11_Witness ==
  \E p, q \in Callers :
    /\ pc[p] = "delSent"
    /\ pc[q] = "done" /\ res[q].kind = "ok" /\ res[q].obj = 0 - q
    /\ res[q].password = cred[q][2]

\* C12: a successful login whose expiry gives expiresAt - now - 5 min <= 0
\* writes nothing to the session cache and getUserApi still resolves with the
\* new session object; when that value is positive the session is written
\* under the key of the credential hash with exactly that TTL (to the memory
\* store at once, to the remote store when its write is executed).
C12_TtlBoundary ==
  [][\A L \in LoginIds :
       LET h == logins[L].h
           by == logins[L].by
           ttl == (logins'[L].expSec * 1000) - NowMs - 300000
           entry(t) == [present |-> TRUE, token |-> L,
                        expiresAt |-> logins'[L].expSec * 1000,
                        email |-> logins[L].c[1], isPremium |-> logins[L].c[1] = "a",
                        exp |-> NowMs + t]
           succeeded == logins[L].st = "inflight" /\ logins'[L].st \in {"ok", "setSent"}
           resolved == /\ pc'[by] = "done" /\ res'[by].kind = "ok"
                       /\ res'[by].obj = L /\ res'[by].token = L
                       /\ res'[by].expSec = logins'[L].expSec
       IN /\ (succeeded /\ ttl <= 0) =>
               sL1' = sL1 /\ sL2' = sL2 /\ logins'[L].st = "ok" /\ resolved
          /\ (succeeded /\ ttl > 0 /\ scfg.cacheOn) =>
               /\ sL1' = [sL1 EXCEPT ![h] = entry(ttl)]
               /\ logins'[L].ttl = ttl
               /\ IF scfg.remoteOn THEN logins'[L].st = "setSent" /\ sL2' = sL2
                  ELSE resolved
          /\ (succeeded /\ ~scfg.cacheOn) => sL1' = sL1 /\ sL2' = sL2 /\ resolved
          /\ (logins[L].st = "setSent" /\ logins'[L].st # "setSent") =>
               /\ resolved
               /\ sL2' = sL2 \/ sL2' = [sL2 EXCEPT ![h] = entry(logins[L].ttl)]
    ]_vars

\* one login came back with a TTL of exactly 0: its caller has the session
\* and no store holds it; another came back with a positive TTL and is in the
\* memory store with that TTL
C12_Witness ==
  \E L, M \in LoginIds :
    /\ logins[L].st = "ok" /\ logins[L].expSec * 1000 - NowMs - 300000 = 0
    /\ res[logins[L].by].kind = "ok" /\ res[logins[L].by].obj = L
    /\ \A h \in Hashes : sL1[h].token # L /\ sL2[h].token # L
    /\ logins[M].st = "ok" /\ logins[M].ttl > 0
    /\ sL1[logins[M].h].token = M
    /\ sL1[logins[M].h].exp = NowMs + logins[M].ttl

\* C13: no value in the session cache, in the memory or the remote store or
\* on its way back from a read, carries a password: an entry consists of the
\* session token, the expiry, the email and the premium flag (and the
\* store's own bookkeeping), and a session rebuilt from the cache holds the
\* password its caller passed.
C13_PasswordNeverPersisted ==
  /\ \A h \in Hashes, p \in Callers :
       \A e \in {sL1[h], sL2[h], got[p]} :
         e.present =>
           /\ DOMAIN e = {"present", "token", "expiresAt", "email", "isPremium", "exp"}
           /\ \A c \in ValidCreds : e.email # c[2]
  /\ \A p \in Callers :
       (pc[p] = "done" /\ res[p].kind = "ok" /\ res[p].obj < 0) =>
         res[p].password = cred[p][2]

\* both stores hold the entry a login wrote and a later caller was handed a
\* session rebuilt from it
C13_Witness ==
  \E h \in Hashes, p \in Callers :
    /\ sL1[h].present /\ sL1[h].token > 0
    /\ sL2[h].present /\ sL2[h].token = sL1[h].token
    /\ pc[p] = "done" /\ res[p].kind = "ok" /\ res[p].obj = 0 - p
    /\ res[p].token = sL1[h].token /\ res[p].password = cred[p][2]

\* C14: a getUserApi call with an empty email or an empty password fails in
\* the turn it is made, and that step reads no store, leaves the ledger, the
\* logins and both stores as they were and starts no upstream call.
C14_InvalidInputFailsFast ==
  [][\A p \in Callers :
       (pc[p] = "idle" /\ pc'[p] # "idle" /\ (cred'[p][1] = "" \/ cred'[p][2] = "")) =>
         /\ pc'[p] = "done" /\ res'[p].kind = "invalid"
         /\ awaiting'[p] = 0 /\ got' = got
         /\ initPromises' = initPromises
         /\ logins' = logins /\ nLogins' = nLogins
         /\ sL1' = sL1 /\ sL2' = sL2
         /\ \A q \in Callers : q # p => pc'[q] = pc[q] /\ res'[q] = res[q]
    ]_vars

\* a call with a missing password was rejected while the login of an earlier
\* caller was in flight, and that login is still in the ledger
C14_Witness ==
  \E p, q \in Callers :
    /\ q < p /\ pc[p] = "done" /\ res[p].kind = "invalid" /\ cred[p] = <<"a", "">>
    /\ pc[q] = "initiating" /\ logins[awaiting[q]].st = "inflight"
    /\ initPromises[HashOf(cred[q])] = awaiting[q]

\* C21: the ledger holds an entry for a credential hash only while the login
\* it points at, started by getUserApi for that hash, has not settled: once a
\* login has settled, with a session or with an error, its marker is gone.
C21_LedgerReleased ==
  \A h \in Hashes :
    initPromises[h] # 0 =>
      /\ logins[initPromises[h]].st \in {"inflight", "setSent"}
      /\ logins[initPromises[h]].h = h

\* one login has succeeded and one has failed, neither is in the ledger, and
\* the ledger holds the marker of a third login that is in flight
C21_Witness ==
  \E L, M, K \in LoginIds :
    /\ logins[L].st = "ok" /\ initPromises[logins[L].h] # L
    /\ logins[M].st = "fail" /\ initPromises[logins[M].h] # M
    /\ logins[K].st = "inflight" /\ initPromises[logins[K].h] = K

\* C30: a failed read of the session cache counts as a miss: the caller goes
\* on to the in-flight check, awaiting the login in the ledger or starting
\* one, and is never answered from the cache.  A failed write of a new
\* session after a successful login changes nothing for the callers: the
\* initiator and the waiters resolve with the session of that login and the
\* marker of its hash is removed.
C30_CacheFailuresNonFatal ==
  [][/\ \A p \in Callers :
          (pc[p] = "lookupGot" /\ got[p].token = 0 - 1 /\ pc'[p] # "lookupGot") =>
            LET h == _getCredentialsHash(cred[p][1], cred[p][2]) IN
            IF initPromises[h] # 0
            THEN /\ pc'[p] = "waiting" /\ awaiting'[p] = initPromises[h]
                 /\ nLogins' = nLogins /\ initPromises' = initPromises
            ELSE /\ pc'[p] = "initiating" /\ nLogins' = nLogins + 1
                 /\ awaiting'[p] = nLogins' /\ initPromises'[h] = nLogins'
                 /\ logins'[nLogins'].st = "inflight" /\ logins'[nLogins'].c = cred[p]
     /\ \A L \in LoginIds :
          (logins[L].st = "setSent" /\ logins'[L].st # "setSent"
             /\ sL2'[logins[L].h].token # L) =>
            /\ logins'[L].st = "ok"
            /\ initPromises'[logins[L].h] = 0
            /\ \A p \in Callers :
                 (awaiting[p] = L /\ pc[p] \in {"initiating", "waiting"}) =>
                   /\ pc'[p] = "done" /\ res'[p].kind = "ok"
                   /\ res'[p].obj = L /\ res'[p].token = L
                   /\ res'[p].email = logins[L].c[1]
    ]_vars

\* the remote write of a new session failed, its initiator and a waiter hold
\* the session, the marker is gone; and the remote read of another caller has
\* just failed
C30_Witness ==
  \E L \in LoginIds, p, q, r \in Callers :
    /\ scfg.remoteOn /\ logins[L].st = "ok" /\ logins[L].ttl > 0
    /\ sL2[logins[L].h].token # L /\ initPromises[logins[L].h] = 0
    /\ logins[L].by = p /\ res[p].kind = "ok" /\ res[p].obj = L
    /\ q # p /\ awaiting[q] = L /\ res[q].kind = "ok" /\ res[q].obj = L
    /\ pc[r] = "lookupGot" /\ got[r].token = 0 - 1

\* ------------------------------------- clearAllCache / destroy of the manager
\* clearAllCache(): this.initPromises.clear(); destroy() does the same.  The
\* promises themselves are untouched: the logins go on and their callers keep
\* awaiting them.  A call with an empty ledger changes nothing.
ClearAllCache ==
  /\ \E h \in Hashes : initPromises[h] # 0
  /\ initPromises' = [h \in Hashes |-> 0]
  /\ UNCHANGED <<cacheVars, imgVars, extVars>>
  /\ UNCHANGED <<now, scfg, pc, cred, got, awaiting, res, logins, nLogins,
                 sL1, sL2, sawLogin, settledAtCall>>

NextSessionClear ==
  \/ \E p \in Callers, c \in CredPairs : Call(p, c)
  \/ \E p \in Callers, ok \in BOOLEAN : RemoteGetExec(p, ok)
  \/ \E p \in Callers : RemoteGetReturn(p)
  \/ \E p \in Callers, ok \in BOOLEAN : DelReturn(p, ok)
  \/ \E L \in LoginIds, ok \in BOOLEAN, off \in ExpiryOffsetsSec : LoginResponse(L, ok, off)
  \/ \E L \in LoginIds, ok \in BOOLEAN : SetReturn(L, ok)
  \/ TickSession
  \/ ClearAllCache

SpecSessionClear == InitSession /\ [][NextSessionClear]_vars

C32_ClearKeepsSingleFlight ==
  [][/\ \A M \in LoginIds :
          (logins[M].st = "unused" /\ logins'[M].st = "inflight")
            => ~\E L \in LoginIds : L # M /\ Unsettled(logins[L])
                                          /\ logins[L].h = logins'[M].h
     /\ \A L \in LoginIds :
          (Unsettled(logins[L]) /\ ~Unsettled(logins'[L]))
            => \A h \in Hashes :
                 (initPromises[h] # 0 /\ initPromises[h] # L)
                   => initPromises'[h] = initPromises[h]
    ]_vars

\* ======================================================= lib/cache: steps
\* ------------------------------------------------- variants of the cache
\* a cacheability test without the empty-object rule
_shouldCacheNoEmptyRule(data) ==
  IF data.t \in {"null", "undefined"} THEN FALSE
  ELSE IF TypeofObject(data) /\ data.metaNull THEN FALSE
  ELSE TRUE

\* a wrapper whose remote read is outside any try block
CaughtAllButRemoteRead == StoreOps \ {"l2get"}

\* a store whose get never finds anything
HitNever(slot) == FALSE

\* a store read that takes a falsy value for a miss
HitTruthy(slot) == slot.present /\ ~(NowMs > slot.exp) /\ slot.val.t # "number"

\* a remote hit that is not copied into the local store
PromoteNever(l1, key, val, ttl, ok) == l1

\* ------------------------------------------------------------ store.get
\* store.get(key) !== undefined
Hit(slot) == slot.present /\ ~(NowMs > slot.exp)

\* --------------------------------------------------------- _shouldCache
_shouldCache(data) ==
  IF data.t \in {"null", "undefined"} THEN FALSE
  ELSE IF TypeofObject(data) /\ data.metaNull THEN FALSE
  ELSE IF TypeofObject(data) /\ data.n = 0 THEN FALSE
  ELSE TRUE

\* the store operations _cacheWrap runs inside try/catch or with .catch()
CaughtStoreOps == StoreOps

\* l1Store.set(key, existing, ttl).catch(...) after a remote hit
Promote(l1, key, val, ttl, ok) == IF ok THEN [l1 EXCEPT ![key] = Slot(val, ttl)] ELSE l1

\* ------------------------------------------------------ the computeFns
\* what the upstream does during one computeFn
UpstreamOf(f) ==
  CASE f = "catalog" -> {"ok", "empty", "searchFail"}
    [] f = "meta" -> {"ok", "videoFail"}
    [] f = "stream" -> {"ok", "videoFail", "noStreams", "detailsFail"}
    [] f = "image" -> {"ok", "fetchFail"}

\* the upstream call failed (after its retries)
UpstreamFailed(up) == up \in {"searchFail", "videoFail", "detailsFail", "fetchFail"}

\* apiClient.search: the hits, [] for no hits and [] when the request failed
search(up, id) == IF up = "ok" THEN Payload("array", id) ELSE EmptyArray

\* apiClient.getVideoData: the data, null when the request failed
getVideoData(up, id) == IF up = "videoFail" THEN Null ELSE Payload("object", id)

Returns(v) == [throws |-> FALSE, val |-> v]
Throws == [throws |-> TRUE, val |-> Undefined]

\* the computeFn of CatalogHandler._getCatalogData
_getCatalogData(up, id) ==
  LET results == search(up, id)
  IN IF results.t # "array" THEN Returns(EmptyArray) ELSE Returns(results)

\* the computeFn of MetaService.getMetaData (video ids): _getVideoMeta
_getVideoMeta(up, id) ==
  LET data == getVideoData(up, id)
  IN IF data = Null THEN Returns(Null) ELSE Returns(Payload("object", id))

\* StreamHandler._getVideoStreams
_getVideoStreams(up, id) ==
  LET data == getVideoData(up, id)
  IN IF data = Null THEN Returns(EmptyArray)
     ELSE IF up = "detailsFail" THEN Throws
     ELSE IF up = "noStreams" THEN Returns(EmptyArray)
     ELSE Returns(Payload("array", id))

\* the computeFn of StreamHandler._getStreams
_getStreams(up, id) ==
  LET streams == _getVideoStreams(up, id)
  IN IF streams.throws THEN Throws
     ELSE IF streams.val.t # "array" THEN Returns(emptyResponse("stream"))
     ELSE IF streams.val.n = 0 THEN Returns(emptyResponse("stream"))
     ELSE Returns(Payload("object", id))

\* the computeFn of fetchImageWithCache: imageFetchService.fetch
fetchImageFn(up, id) == IF up = "fetchFail" THEN Throws ELSE Returns(JsVal("object", 2, FALSE, id))

\* values a caller-supplied computeFn may return that the handlers' do not;
\* the last one is the number 0, a falsy value that _shouldCache accepts
CustomValues == {Undefined, EmptyObject, emptyResponse("meta"), JsVal("number", 0, FALSE, 0)}

\* what computeFn number id of facade f yields when the upstream does up;
\* up = "custom": a caller-supplied computeFn returning the value cv
Outcome(f, up, cv, id) ==
  CASE up = "custom" -> Returns(cv)
    [] f = "catalog" -> _getCatalogData(up, id)
    [] f = "meta" -> _getVideoMeta(up, id)
    [] f = "stream" -> _getStreams(up, id)
    [] f = "image" -> fetchImageFn(up, id)

Upstreams == UNION {UpstreamOf(f) : f \in Facades} \cup {"custom"}

\* ------------------------------------------------------------ _cacheWrap
RECURSIVE SumFaults(_)
SumFaults(W) ==
  IF W = {} THEN 0
  ELSE LET w == CHOOSE x \in W : TRUE
       IN Cardinality(wraps[w].faults) + SumFaults(W \ {w})

\* a further store operation may fail
MayFail == SumFaults(Wraps) < MaxFaults

\* a wrap that turns the error of computeFn into an undefined result
WrapDoneSwallow(r, kind, val, src) ==
  [r EXCEPT !.pc = "done", !.doneAt = now,
            !.res = [kind |-> IF kind = "err" THEN "ok" ELSE kind, val |-> val, src |-> src]]

WrapDone(r, kind, val, src) ==
  [r EXCEPT !.pc = "done", !.doneAt = now, !.res = [kind |-> kind, val |-> val, src |-> src]]

\* a store operation of the wrap failed
Fault(r, op) == [r EXCEPT !.faults = @ \cup {op}]

\* the wrap rejects with the error of a store operation
StoreError(r, op) == WrapDone(Fault(r, op), "storeErr", Undefined, op)

\* const data = await method()
StartMethod(r) == [r EXCEPT !.pc = "computing", !.invoked = TRUE]

\* after the local tier: try L2 if there is one, else fetch
AfterL1(r) == IF HasL2(r.f) THEN [r EXCEPT !.pc = "l2get", !.readL2 = TRUE] ELSE StartMethod(r)

\* cacheWrapCatalog / cacheWrapMeta / cacheWrapStream / cacheWrapBinaryImage:
\* _cacheWrap up to its first await on the network.  ok1: l1Store.get works.
CacheWrap(w, f, ok1) ==
  /\ wraps[w].pc = "idle"
  /\ \A v \in Wraps : v < w => wraps[v].pc # "idle"
  /\ ok1 \/ (HasL1(f) /\ MayFail)
  /\ LET key == KeyOf(f)
         r == [NoWrap EXCEPT !.f = f, !.key = key,
                  !.after = {v \in Wraps : /\ wraps[v].pc = "done" /\ wraps[v].key = key
                                           /\ ~(NowMs > wraps[v].doneAt * TickMs + TtlOf(f))}]
     IN wraps' = [wraps EXCEPT ![w] =
          IF ~HasL1(f) THEN StartMethod(r)
          ELSE IF ~ok1
          THEN IF "l1get" \in CaughtStoreOps THEN AfterL1(Fault(r, "l1get"))
               ELSE StoreError(r, "l1get")
          ELSE IF Hit(cL1[key]) THEN WrapDone(r, "ok", cL1[key].val, "l1")
          ELSE AfterL1(r)]
  /\ UNCHANGED <<ccfg, cL1, cL2, pendingL2>>
  /\ UNCHANGED <<now, sessVars, imgVars, extVars>>

\* l2Store.get answers.  ok: the read worked; pok: the promotion write works.
L2GetReturn(w, ok, pok) ==
  /\ wraps[w].pc = "l2get"
  /\ (ok /\ pok) \/ MayFail
  /\ LET r == wraps[w]
         f == r.f
         key == r.key
     IN IF ~ok
        THEN /\ wraps' = [wraps EXCEPT ![w] =
                  IF "l2get" \in CaughtStoreOps THEN StartMethod(Fault(r, "l2get"))
                  ELSE StoreError(r, "l2get")]
             /\ pok
             /\ UNCHANGED cL1
        ELSE IF Hit(cL2[key])
        THEN /\ cL1' = Promote(cL1, key, cL2[key].val, TtlOf(f), pok)
             /\ wraps' = [wraps EXCEPT ![w] =
                  IF pok THEN WrapDone([r EXCEPT !.promoted = TRUE], "ok", cL2[key].val, "l2")
                  ELSE IF "promote" \in CaughtStoreOps
                  THEN WrapDone(Fault(r, "promote"), "ok", cL2[key].val, "l2")
                  ELSE StoreError(r, "promote")]
        ELSE /\ wraps' = [wraps EXCEPT ![w] = StartMethod(r)]
             /\ pok
             /\ UNCHANGED cL1
  /\ UNCHANGED <<ccfg, cL2, pendingL2>>
  /\ UNCHANGED <<now, sessVars, imgVars, extVars>>

\* method() settles: _shouldCache, the L1 write and the L2 write it issues.
\* ok1: l1Store.set works.
MethodReturn(w, up, cv, ok1) ==
  /\ wraps[w].pc = "computing"
  /\ ok1 \/ MayFail
  /\ \/ up = "custom" /\ wraps[w].f = "meta"
     \/ up \in UpstreamOf(wraps[w].f) /\ cv = Undefined
  /\ LET r == [wraps[w] EXCEPT !.up = up]
         f == r.f
         key == r.key
         o == Outcome(f, up, cv, w)
         data == o.val
     IN /\ IF o.throws
           THEN /\ wraps' = [wraps EXCEPT ![w] = WrapDone(r, "err", Undefined, "computed")]
                /\ ok1
                /\ UNCHANGED <<cL1, pendingL2>>
           ELSE IF CacheFor(f) = "null" \/ ~_shouldCache(data) \/ ~HasL1(f)
           THEN /\ wraps' = [wraps EXCEPT ![w] = WrapDone(r, "ok", data, "computed")]
                /\ ok1
                /\ UNCHANGED <<cL1, pendingL2>>
           ELSE IF ok1
           THEN /\ cL1' = [cL1 EXCEPT ![key] = Slot(data, TtlOf(f))]
                /\ pendingL2' = IF HasL2(f)
                                THEN pendingL2 \cup {[key |-> key, val |-> data, ttl |-> TtlOf(f), by |-> w]}
                                ELSE pendingL2
                /\ wraps' = [wraps EXCEPT ![w] = WrapDone([r EXCEPT !.wrote = TRUE], "ok", data, "computed")]
           ELSE /\ wraps' = [wraps EXCEPT ![w] =
                     IF "l1set" \in CaughtStoreOps
                     THEN WrapDone(Fault(r, "l1set"), "ok", data, "computed")
                     ELSE StoreError(r, "l1set")]
                /\ UNCHANGED <<cL1, pendingL2>>
  /\ UNCHANGED <<ccfg, cL2>>
  /\ UNCHANGED <<now, sessVars, imgVars, extVars>>

\* a remote write whose failure removes the local entry again
L2SetLandUndo(w, ok) ==
  /\ ok \/ MayFail
  /\ \E wr \in pendingL2 :
       /\ wr.by = w
       /\ pendingL2' = pendingL2 \ {wr}
       /\ cL2' = IF ok THEN [cL2 EXCEPT ![wr.key] = Slot(wr.val, wr.ttl)] ELSE cL2
       /\ cL1' = IF ok THEN cL1 ELSE [cL1 EXCEPT ![wr.key] = NoSlot]
  /\ wraps' = IF ok THEN wraps ELSE [wraps EXCEPT ![w] = Fault(@, "l2set")]
  /\ UNCHANGED ccfg
  /\ UNCHANGED <<now, sessVars, imgVars, extVars>>

\* the remote store executes a write issued by l2Store.set(...).catch(...)
L2SetLand(w, ok) ==
  /\ ok \/ MayFail
  /\ \E wr \in pendingL2 :
       /\ wr.by = w
       /\ pendingL2' = pendingL2 \ {wr}
       /\ cL2' = IF ok THEN [cL2 EXCEPT ![wr.key] = Slot(wr.val, wr.ttl)] ELSE cL2
  /\ wraps' = IF ok THEN wraps ELSE [wraps EXCEPT ![w] = Fault(@, "l2set")]
  /\ UNCHANGED <<ccfg, cL1>>
  /\ UNCHANGED <<now, sessVars, imgVars, extVars>>

TickCache ==
  /\ now < MaxCacheTime
  /\ now' = now + 1
  /\ UNCHANGED <<sessVars, cacheVars, imgVars, extVars>>

InitCache ==
  /\ now = 0
  /\ IdleSession
  /\ IdleImage
  /\ IdleExt
  /\ ccfg \in {[cacheOn |-> FALSE, remoteOn |-> FALSE, seeded |-> FALSE],
               [cacheOn |-> TRUE, remoteOn |-> FALSE, seeded |-> FALSE],
               [cacheOn |-> TRUE, remoteOn |-> TRUE, seeded |-> FALSE],
               [cacheOn |-> TRUE, remoteOn |-> TRUE, seeded |-> TRUE]}
  /\ wraps = [w \in Wraps |-> NoWrap]
  /\ cL1 = [k \in CacheKeys |-> NoSlot]
  /\ cL2 = [k \in CacheKeys |-> IF ccfg.seeded /\ k # KeyOf("image") THEN SeedSlot(k) ELSE NoSlot]
  /\ pendingL2 = {}

NextCache ==
  \/ \E w \in Wraps, f \in Facades, ok1 \in BOOLEAN : CacheWrap(w, f, ok1)
  \/ \E w \in Wraps, ok \in BOOLEAN, pok \in BOOLEAN : L2GetReturn(w, ok, pok)
  \/ \E w \in Wraps, up \in Upstreams, cv \in CustomValues, ok1 \in BOOLEAN :
       MethodReturn(w, up, cv, ok1)
  \/ \E w \in Wraps, ok \in BOOLEAN : L2SetLand(w, ok)
  \/ TickCache

SpecCache == InitCache /\ [][NextCache]_vars

\* ------------------------------------------------ properties of lib/cache
\* C4: a computed value that is null, undefined, an empty object or array, or
\* an object whose meta is null is never written to any tier (not by the wrap
\* that computed it, and no store or pending remote write ever holds one), and
\* a key that nobody stored is never served from a tier: the next wrap for it
\* invokes computeFn again.
C4_NegativeNeverCached ==
  LET Negative(v) == \/ v.t \in {"null", "undefined"}
                     \/ v.t \in {"object", "array"} /\ v.n = 0
                     \/ v.t = "object" /\ v.metaNull
  IN /\ \A w \in Wraps :
          (wraps[w].res.kind = "ok" /\ wraps[w].res.src = "computed"
             /\ Negative(wraps[w].res.val)) => ~wraps[w].wrote
     /\ \A k \in CacheKeys : /\ cL1[k].present => ~Negative(cL1[k].val)
                             /\ cL2[k].present => ~Negative(cL2[k].val)
     /\ \A wr \in pendingL2 : ~Negative(wr.val)
     /\ \A w \in Wraps :
          wraps[w].res.src \in {"l1", "l2"} =>
            \/ ccfg.seeded
            \/ \E v \in Wraps : wraps[v].key = wraps[w].key /\ wraps[v].wrote

\* with working stores, a wrap computed a negative value and a later wrap
\* for the same key invoked computeFn again
C4_Witness ==
  \E w1, w2 \in Wraps :
    /\ HasL1(wraps[w1].f) /\ w1 \in wraps[w2].after
    /\ wraps[w1].res.kind = "ok" /\ wraps[w1].res.src = "computed"
    /\ wraps[w1].res.val \in {Null, Undefined, EmptyObject, EmptyArray, emptyResponse("meta")}
    /\ wraps[w1].faults = {} /\ wraps[w2].faults = {}
    /\ wraps[w2].pc = "done" /\ wraps[w2].invoked

\* C5: when the upstream call behind a catalog, metadata or stream fetch
\* fails, the wrap leaves no entry for the key in any tier.
C5_UpstreamFailureNotCached ==
  \A w \in Wraps :
    (wraps[w].pc = "done" /\ wraps[w].f \in {"catalog", "meta", "stream"}
       /\ UpstreamFailed(wraps[w].up)) => ~wraps[w].wrote

\* C6: no store failure reaches the caller: wrap rejects only when computeFn
\* threw, a failed read is a miss, a failed write stores nothing, and wrap
\* resolves with a value a tier held or with the value computeFn returned.
C6_StoreFailuresContained ==
  \A w \in Wraps : wraps[w].pc = "done" =>
    LET r == wraps[w] IN
    /\ r.res.kind \in {"ok", "err"}
    /\ r.res.kind = "err" =>
         r.invoked /\ r.up # "custom" /\ Outcome(r.f, r.up, Undefined, w).throws
    /\ (r.res.kind = "ok" /\ r.res.src = "computed" /\ r.up # "custom") =>
         r.res.val = Outcome(r.f, r.up, Undefined, w).val
    /\ (r.res.kind = "ok" /\ r.res.src \in {"l1", "l2"}) =>
         \/ ccfg.seeded /\ r.res.val = SeedSlot(r.key).val
         \/ \E v \in Wraps : wraps[v].key = r.key /\ wraps[v].wrote
                             /\ wraps[v].res.val = r.res.val
    /\ "l1get" \in r.faults => r.res.src # "l1"
    /\ "l2get" \in r.faults => r.res.src = "computed"
    /\ "l1set" \in r.faults => ~r.wrote

\* one wrap saw its local read and its promotion write fail and resolved with
\* the remote value; another saw its remote read and its local write fail and
\* resolved with what computeFn returned
C6_Witness ==
  \E w1, w2 \in Wraps :
    /\ {"l1get", "promote"} \subseteq wraps[w1].faults
    /\ wraps[w1].res.kind = "ok" /\ wraps[w1].res.src = "l2"
    /\ {"l2get", "l1set"} \subseteq wraps[w2].faults
    /\ wraps[w2].res.kind = "ok" /\ wraps[w2].res.src = "computed"

\* C7: a wrap that finds the key only in the remote tier returns the remote
\* value without invoking computeFn, and after its promotion a later wrap for
\* the key (entry unexpired, local read working) is served from the local
\* tier, with no remote read and no computeFn.
C7_Promotion ==
  /\ \A w \in Wraps : wraps[w].res.src = "l2" => ~wraps[w].invoked /\ wraps[w].readL2
  /\ \A w1, w2 \in Wraps :
       (/\ w1 \in wraps[w2].after /\ wraps[w1].promoted
        /\ wraps[w2].pc = "done" /\ "l1get" \notin wraps[w2].faults)
       => /\ wraps[w2].res.src = "l1"
          /\ ~wraps[w2].readL2 /\ ~wraps[w2].invoked
          /\ (\A v \in Wraps \ {w1, w2} : wraps[v].key # wraps[w1].key)
               => wraps[w2].res.val = wraps[w1].res.val

\* the local tier was empty and the remote one held the key: the first wrap
\* was served from the remote tier and promoted, the second from the local one
C7_Witness ==
  \E w1, w2 \in Wraps :
    /\ w1 \in wraps[w2].after
    /\ wraps[w1].res.src = "l2" /\ wraps[w1].promoted /\ wraps[w1].faults = {}
    /\ wraps[w2].res.src = "l1" /\ wraps[w2].res.val = wraps[w1].res.val

\* C8 as stated: from an empty cache and with working stores, a wrap for a
\* catalog/meta/stream key returns what computeFn returned, and a second wrap
\* for the key, issued after the first completed and within the TTL, returns
\* the same result without invoking computeFn.
C8_ColdFetchThenHit ==
  \A w1, w2 \in Wraps :
    (/\ HasL1(wraps[w1].f) /\ w1 \in wraps[w2].after
     /\ wraps[w1].res.kind = "ok" /\ wraps[w1].res.src = "computed"
     /\ wraps[w1].faults = {} /\ wraps[w2].faults = {}
     /\ wraps[w2].pc = "done"
     /\ \A v \in Wraps \ {w1, w2} : wraps[v].key # wraps[w1].key)
    => ~wraps[w2].invoked /\ wraps[w2].res.val = wraps[w1].res.val

\* C8, amended: the same, for a first result that is cacheable (not null, not
\* undefined, not an empty object or array, not an object with meta null).
C8_ColdFetchThenHitIfCacheable ==
  \A w1, w2 \in Wraps :
    (/\ HasL1(wraps[w1].f) /\ w1 \in wraps[w2].after
     /\ wraps[w1].res.kind = "ok" /\ wraps[w1].res.src = "computed"
     /\ ~(\/ wraps[w1].res.val.t \in {"null", "undefined"}
          \/ wraps[w1].res.val.n = 0
          \/ wraps[w1].res.val.metaNull)
     /\ wraps[w1].faults = {} /\ wraps[w2].faults = {}
     /\ wraps[w2].pc = "done"
     /\ \A v \in Wraps \ {w1, w2} : wraps[v].key # wraps[w1].key)
    => ~wraps[w2].invoked /\ wraps[w2].res.val = wraps[w1].res.val

\* a cold wrap computed a cacheable value and the next wrap for the key,
\* within the TTL, returned it from the local tier
C8_Witness ==
  \E w1, w2 \in Wraps :
    /\ w1 \in wraps[w2].after /\ ~ccfg.seeded
    /\ wraps[w1].res.kind = "ok" /\ wraps[w1].res.src = "computed" /\ wraps[w1].wrote
    /\ wraps[w1].faults = {} /\ wraps[w2].faults = {}
    /\ wraps[w2].res.src = "l1" /\ ~wraps[w2].invoked
    /\ wraps[w2].res.val = wraps[w1].res.val

\* C9: with caching enabled, after cacheWrapBinaryImage(key, computeFn) has
\* completed successfully a second call with the same key within the image
\* TTL does not invoke computeFn.
C9_ImageWrapperCaches ==
  \A w1, w2 \in Wraps :
    (/\ ccfg.cacheOn /\ wraps[w1].f = "image" /\ w1 \in wraps[w2].after
     /\ wraps[w1].res.kind = "ok" /\ wraps[w2].pc = "done")
    => ~wraps[w2].invoked

\* C24: when computeFn has returned a cacheable value after a miss and the
\* local write works, the local tier holds the value under the key, with the
\* facade's TTL, in the state in which wrap has returned; where a remote tier
\* exists its write has been issued and is still pending in that state; and
\* a remote write that fails leaves the outcome of the wrap and the local
\* tier as they were.
C24_WriteBackOrdering ==
  [][\A w \in Wraps :
       /\ (wraps[w].pc = "computing" /\ wraps'[w].pc = "done" /\ wraps'[w].wrote) =>
            LET r == wraps'[w] IN
            /\ r.res.kind = "ok" /\ r.res.src = "computed"
            /\ cL1'[r.key] = [present |-> TRUE, val |-> r.res.val,
                              exp |-> NowMs + TtlOf(r.f)]
            /\ StoresLen(r.f) >= 2 =>
                 /\ [key |-> r.key, val |-> r.res.val, ttl |-> TtlOf(r.f), by |-> w] \in pendingL2'
                 /\ cL2'[r.key] = cL2[r.key]
       /\ (wraps[w].pc = "computing" /\ wraps'[w].pc = "done" /\ wraps'[w].res.kind = "ok"
             /\ ccfg.cacheOn /\ StoresLen(wraps[w].f) >= 1
             /\ wraps'[w].res.val.t \notin {"null", "undefined"}
             /\ ~wraps'[w].res.val.metaNull /\ wraps'[w].res.val.n > 0
             /\ "l1set" \notin wraps'[w].faults) => wraps'[w].wrote
       /\ ("l2set" \notin wraps[w].faults /\ "l2set" \in wraps'[w].faults) =>
            /\ wraps[w].pc = "done" /\ wraps'[w].pc = "done"
            /\ wraps'[w].res = wraps[w].res /\ wraps'[w].res.kind = "ok"
            /\ cL1' = cL1 /\ cL2' = cL2
    ]_vars

\* one wrap has returned its computed value, the local tier holds it and the
\* remote write failed; another has returned while its remote write is pending
C24_Witness ==
  \E w, v \in Wraps :
    /\ wraps[w].pc = "done" /\ wraps[w].wrote /\ "l2set" \in wraps[w].faults
    /\ wraps[w].res.kind = "ok" /\ cL1[wraps[w].key].val = wraps[w].res.val
    /\ ~cL2[wraps[w].key].present
    /\ wraps[v].pc = "done" /\ wraps[v].wrote /\ \E wr \in pendingL2 : wr.by = v

\* C25: a wrap whose local read works and finds the key, whatever the value,
\* returns that value in the calling turn, having neither read the remote
\* tier nor invoked computeFn; the remote tier is read only by a wrap whose
\* local read missed or failed; and computeFn is invoked only by a wrap that
\* found the key in no tier it has (a failed read counting as a miss).
C25_ReadOrder ==
  [][\A w \in Wraps :
       LET r == wraps'[w]
           k == r.key
           l1hit == cL1[k].present /\ ~(NowMs > cL1[k].exp)
           l2hit == cL2[k].present /\ ~(NowMs > cL2[k].exp)
       IN
       /\ (wraps[w].pc = "idle" /\ r.pc # "idle" /\ StoresLen(r.f) >= 1
             /\ "l1get" \notin r.faults /\ l1hit) =>
            /\ r.pc = "done" /\ r.res.kind = "ok" /\ r.res.src = "l1"
            /\ r.res.val = cL1[k].val
            /\ ~r.readL2 /\ ~r.invoked
       /\ (~wraps[w].readL2 /\ r.readL2) =>
            /\ wraps[w].pc = "idle" /\ StoresLen(r.f) >= 2
            /\ "l1get" \in r.faults \/ ~l1hit
       /\ (~wraps[w].invoked /\ r.invoked) =>
            /\ wraps[w].pc = "idle" =>
                 /\ StoresLen(r.f) <= 1
                 /\ StoresLen(r.f) = 1 => ("l1get" \in r.faults \/ ~l1hit)
            /\ wraps[w].pc # "idle" =>
                 /\ wraps[w].pc = "l2get" /\ wraps[w].readL2
                 /\ "l2get" \in r.faults \/ ~l2hit
       /\ r.res.src = "l1" => ~r.readL2 /\ ~r.invoked
       /\ r.res.src = "l2" => ~r.invoked
    ]_vars

\* the local tier holds the number 0 under a key and a wrap for that key has
\* returned it from the local tier without a remote read, a remote tier
\* being configured
C25_Witness ==
  \E w \in Wraps :
    /\ ccfg.remoteOn /\ wraps[w].pc = "done" /\ wraps[w].res.src = "l1"
    /\ wraps[w].res.val.t = "number" /\ ~wraps[w].readL2 /\ ~wraps[w].invoked
    /\ cL1[wraps[w].key].val = wraps[w].res.val

\* C29: when computeFn throws, the wrap rejects with that error in the same
\* step and the step writes nothing: both tiers and the pending remote writes
\* are as before; and in a cache that held nothing for the key, a later wrap
\* for the key that follows a wrap rejected in this way invokes computeFn.
C29_FailingComputePropagates ==
  [][/\ \A w \in Wraps :
          (wraps[w].pc = "computing" /\ wraps'[w].pc = "done"
             /\ wraps'[w].up # "custom"
             /\ Outcome(wraps[w].f, wraps'[w].up, Undefined, w).throws) =>
            /\ wraps'[w].res.kind = "err" /\ wraps'[w].res.src = "computed"
            /\ ~wraps'[w].wrote
            /\ cL1' = cL1 /\ cL2' = cL2 /\ pendingL2' = pendingL2
     /\ \A w1, w2 \in Wraps :
          (/\ w1 \in wraps'[w2].after /\ wraps'[w1].res.kind = "err"
           /\ wraps'[w2].pc = "done" /\ ~ccfg.seeded
           /\ \A v \in Wraps \ {w1, w2} : wraps'[v].key # wraps'[w1].key)
          => wraps'[w2].invoked
    ]_vars

\* the computeFn of a stream wrap threw, the wrap was rejected, no tier holds
\* the key, and a later wrap for the key has invoked computeFn again
C29_Witness ==
  \E w1, w2 \in Wraps :
    /\ ccfg.cacheOn /\ wraps[w1].f = "stream" /\ wraps[w1].up = "detailsFail"
    /\ wraps[w1].res.kind = "err" /\ w1 \in wraps[w2].after
    /\ ~cL1[wraps[w1].key].present /\ ~cL2[wraps[w1].key].present
    /\ wraps[w2].invoked

\* C28: every write to a tier, local, promoted or remote, is made by a wrap
\* under the key prefix of its own facade (catalog:, meta:, stream:,
\* binary-images:) and with the TTL of that facade (2 h, 36 h, 36 h, 30 s);
\* and a wrap served from a tier gets a value that a wrap of the same facade
\* computed (or that an earlier run left in the remote tier), although all
\* facades are called with the same identifier.
C28_FacadeIsolation ==
  [][LET OwnKey(f) == CASE f = "catalog" -> "catalog:id"
                        [] f = "meta" -> "meta:id"
                        [] f = "stream" -> "stream:id"
                        [] f = "image" -> "binary-images:id"
         OwnTtl(f) == CASE f = "catalog" -> 2 * 3600 * 1000
                        [] f = "meta" -> 36 * 3600 * 1000
                        [] f = "stream" -> 36 * 3600 * 1000
                        [] f = "image" -> 30 * 1000
     IN
     /\ \A k \in DOMAIN cL1 :
          cL1'[k] # cL1[k] =>
            \E w \in Wraps :
              /\ wraps[w].pc \in {"computing", "l2get"} /\ wraps'[w].pc = "done"
              /\ k = OwnKey(wraps[w].f)
              /\ cL1'[k] = [present |-> TRUE, val |-> wraps'[w].res.val,
                            exp |-> NowMs + OwnTtl(wraps[w].f)]
     /\ \A wr \in pendingL2' \ pendingL2 :
          /\ wr.key = OwnKey(wraps'[wr.by].f) /\ wr.ttl = OwnTtl(wraps'[wr.by].f)
          /\ wr.val = wraps'[wr.by].res.val
     /\ \A k \in DOMAIN cL2 :
          cL2'[k] # cL2[k] =>
            \E wr \in pendingL2 \ pendingL2' :
              /\ wr.key = k /\ cL2'[k] = [present |-> TRUE, val |-> wr.val, exp |-> NowMs + wr.ttl]
     /\ \A w \in Wraps :
          wraps'[w].res.src \in {"l1", "l2"} =>
            /\ wraps'[w].key = OwnKey(wraps'[w].f)
            /\ wraps'[w].res.val.id \in Wraps =>
                 /\ wraps'[wraps'[w].res.val.id].f = wraps'[w].f
                 /\ wraps'[wraps'[w].res.val.id].res.src = "computed"
            /\ wraps'[w].res.val.id \notin Wraps =>
                 \/ ccfg.seeded /\ wraps'[w].res.val.id = NWraps + 1
                 \/ \E v \in Wraps : /\ wraps'[v].f = wraps'[w].f /\ wraps'[v].wrote
                                      /\ wraps'[v].res.val = wraps'[w].res.val
    ]_vars

\* a catalog wrap has stored its value; a meta wrap called afterwards with the
\* same identifier did not get it and computed its own, and both entries are
\* in the local tier under their own keys
C28_Witness ==
  \E w1, w2 \in Wraps :
    /\ wraps[w1].f = "catalog" /\ wraps[w1].wrote /\ wraps[w1].pc = "done"
    /\ wraps[w2].f = "meta" /\ wraps[w2].wrote /\ wraps[w2].invoked
    /\ wraps[w1].doneAt <= wraps[w2].doneAt
    /\ cL1["catalog:id"].val = wraps[w1].res.val
    /\ cL1["meta:id"].val = wraps[w2].res.val
    /\ wraps[w1].res.val # wraps[w2].res.val

\* C35: a value that a wrap returns from a tier was produced by a computeFn
\* that completed at most the TTL of its category earlier, and no entry of
\* the local tier outlives the TTL counted from the completion of the
\* computeFn that produced its value (a promotion does not extend it).  The
\* value stored by the earlier run was produced, at the latest, one TTL
\* before its remote entry expires.
C35_BoundedStaleness ==
  LET ProducedAt(val, f) == IF val.id = NWraps + 1
                            THEN SeedSlot(KeyOf(f)).exp - TtlOf(f)
                            ELSE wraps[val.id].doneAt * TickMs
  IN /\ \A w \in Wraps :
          (/\ wraps[w].pc = "done" /\ wraps[w].res.kind = "ok"
           /\ wraps[w].res.src \in {"l1", "l2"} /\ wraps[w].res.val.id # 0)
            => wraps[w].doneAt * TickMs - ProducedAt(wraps[w].res.val, wraps[w].f)
                 <= TtlOf(wraps[w].f)
     /\ \A f \in Facades :
          (cL1[KeyOf(f)].present /\ cL1[KeyOf(f)].val.id # 0)
            => cL1[KeyOf(f)].exp <= ProducedAt(cL1[KeyOf(f)].val, f) + TtlOf(f)

\* C37: for a given key at most one computeFn execution is in flight: wraps
\* for the same key that overlap on a cold cache do not each invoke their
\* computeFn.
C37_ConcurrentMissesCollapsed ==
  ccfg.cacheOn =>
    \A w1, w2 \in Wraps :
      (/\ wraps[w1].pc = "computing" /\ wraps[w2].pc = "computing"
       /\ wraps[w1].key = wraps[w2].key)
        => w1 = w2

\* =================================================== image proxy: steps
\* the mutable state of the image proxy, as one record
Cur == [imageCache |-> imageCache, inFlight |-> inFlight, items |-> items,
        isProcessing |-> isProcessing, worker |-> worker, reqs |-> reqs,
        fetches |-> fetches, nFetches |-> nFetches]

Commit(st) ==
  /\ imageCache' = st.imageCache
  /\ inFlight' = st.inFlight
  /\ items' = st.items
  /\ isProcessing' = st.isProcessing
  /\ worker' = st.worker
  /\ reqs' = st.reqs
  /\ fetches' = st.fetches
  /\ nFetches' = st.nFetches

\* ImageCacheService.get: the entry unless absent or expired ...
Valid(entry) == entry.present /\ ~(entry.expires < NowMs)
\* ... and an expired entry is deleted by the get
AfterGet(st, url) == [st EXCEPT !.imageCache[url] = IF Valid(@) THEN @ ELSE NoImg]

\* a ledger entry that is removed only after a successful fetch
DedupReleaseOnSuccess(ledger, url, ok) == IF ok THEN [ledger EXCEPT ![url] = 0] ELSE ledger

\* .finally(() => { inFlight.delete(imageUrl) }) of the fetch promise; ok
\* tells whether the fetch succeeded (the code does not look at it)
DedupRelease(ledger, url, ok) == [ledger EXCEPT ![url] = 0]

\* the promise handed to a fetchImage caller settles
Resolve(st, r, kind, by) ==
  [st EXCEPT !.reqs[r].pc = "done", !.reqs[r].kind = kind, !.reqs[r].by = by]

\* fetchImageWithCache(url).finally(...) is called and inFlight.set(url, promise)
StartFetch(st, url) ==
  LET F == st.nFetches + 1
  IN [st EXCEPT !.nFetches = F, !.fetches[F] = [st |-> "inflight", url |-> url],
                !.inFlight[url] = F]

\* the while loop of processQueue, up to its next await
RECURSIVE WorkerLoop(_)
WorkerLoop(st) ==
  IF st.items = <<>>
  THEN [st EXCEPT !.isProcessing = FALSE, !.worker = IdleWorker]
  ELSE LET r == Head(st.items)
           url == st.reqs[r].url
           s1 == AfterGet([st EXCEPT !.items = Tail(@)], url)
       IN IF Valid(st.imageCache[url])
          THEN WorkerLoop(Resolve(s1, r, "ok", st.imageCache[url].by))
          ELSE IF s1.inFlight[url] # 0
          THEN [s1 EXCEPT !.worker = [pc |-> "joined", item |-> r, fetch |-> s1.inFlight[url]]]
          ELSE LET s2 == StartFetch(s1, url)
               IN [s2 EXCEPT !.worker = [pc |-> "fetching", item |-> r, fetch |-> s2.nFetches]]

\* a processQueue that starts a loop although one is running
processQueueUnguarded(st) ==
  IF st.items = <<>> THEN st
  ELSE WorkerLoop([st EXCEPT !.isProcessing = TRUE])

\* ImageQueueService.processQueue
processQueue(st) ==
  IF st.isProcessing \/ st.items = <<>> THEN st
  ELSE WorkerLoop([st EXCEPT !.isProcessing = TRUE])

\* a queue that appends the request and does not start the worker
queueNoStart(st, r) == [st EXCEPT !.items = Append(@, r), !.reqs[r].pc = "queued"]

\* ImageQueueService.queue, for an enabled queue
queue(st, r) == processQueue([st EXCEPT !.items = Append(@, r), !.reqs[r].pc = "queued"])

\* the lifetimes of call r and of the calls in others (same url) overlap
WithOverlap(st, r, others) ==
  IF st.reqs[r].pc = "done" THEN st
  ELSE [st EXCEPT !.reqs = [q \in Reqs |->
          IF q = r THEN [@[q] EXCEPT !.overlap = @ \cup others]
          ELSE IF q \in others THEN [@[q] EXCEPT !.overlap = @ \cup {r}]
          ELSE @[q]]]

\* fetchImage(imageUrl, imagePath)
FetchImage(r, url) ==
  /\ reqs[r].pc = "idle"
  /\ \A q \in Reqs : q < r => reqs[q].pc # "idle"
  /\ LET others == {q \in Reqs : reqs[q].pc \notin {"idle", "done"} /\ reqs[q].url = url}
         s0 == AfterGet([Cur EXCEPT !.reqs[r].url = url], url)
         st == IF Valid(imageCache[url])
               THEN Resolve(s0, r, "ok", imageCache[url].by)
               ELSE IF inFlight[url] # 0
               THEN [s0 EXCEPT !.reqs[r].pc = "waiting", !.reqs[r].awaiting = inFlight[url]]
               ELSE IF icfg.queueEnabled
               THEN queue(s0, r)
               ELSE LET s2 == StartFetch(s0, url)
                    IN [s2 EXCEPT !.reqs[r].pc = "waiting", !.reqs[r].awaiting = s2.nFetches]
     IN Commit(WithOverlap(st, r, others))
  /\ UNCHANGED <<now, icfg, sessVars, cacheVars, extVars>>

\* imageFetch.fetch of fetch F settles: fetchImageWithCache stores the image,
\* the finally handler clears the ledger, then everyone awaiting F resumes
FetchReturn(F, ok) ==
  /\ fetches[F].st = "inflight"
  /\ LET url == fetches[F].url
         kind == IF ok THEN "ok" ELSE "err"
         s1 == [Cur EXCEPT
                  !.fetches[F].st = IF ok THEN "ok" ELSE "fail",
                  !.imageCache[url] = IF ok THEN [present |-> TRUE, by |-> F,
                                                   expires |-> NowMs + ImageCacheTtlMs]
                                      ELSE @,
                  !.inFlight = DedupRelease(@, url, ok),
                  !.reqs = [q \in Reqs |->
                              IF reqs[q].pc = "waiting" /\ reqs[q].awaiting = F
                              THEN [reqs[q] EXCEPT !.pc = "done", !.kind = kind, !.by = F]
                              ELSE reqs[q]]]
         s2 == IF worker.fetch = F
               THEN LET s3 == Resolve(s1, worker.item, kind, F)
                    IN IF worker.pc = "joined" /\ ok THEN WorkerLoop(s3)
                       ELSE IF s3.items # <<>>
                       THEN [s3 EXCEPT !.worker = [pc |-> "sleeping", item |-> 0, fetch |-> 0]]
                       ELSE WorkerLoop(s3)
               ELSE s1
     IN Commit(s2)
  /\ UNCHANGED <<now, icfg, sessVars, cacheVars, extVars>>

\* await sleep(this.delay) is over
SleepDone ==
  /\ worker.pc = "sleeping"
  /\ Commit(WorkerLoop(Cur))
  /\ UNCHANGED <<now, icfg, sessVars, cacheVars, extVars>>

TickImage ==
  /\ now < MaxImageTime
  /\ now' = now + 1
  /\ UNCHANGED <<sessVars, cacheVars, imgVars, extVars>>

InitImage ==
  /\ now = 0
  /\ IdleSession
  /\ IdleCache
  /\ IdleExt
  /\ icfg \in {[queueEnabled |-> TRUE], [queueEnabled |-> FALSE]}
  /\ ImageStart

NextImage ==
  \/ \E r \in Reqs, url \in Urls : FetchImage(r, url)
  \/ \E F \in FetchIds, ok \in BOOLEAN : FetchReturn(F, ok)
  \/ SleepDone
  \/ TickImage

SpecImage == InitImage /\ [][NextImage]_vars

\* ------------------------------------------- properties of the image proxy
\* C10: fetchImage calls for the same url that overlap in time, starting with
\* no cache entry for it, result in one upstream fetch, queue enabled or not:
\* any two of them get what one and the same fetch produced.
C10_OneFetchForOverlappingCalls ==
  \A r1, r2 \in Reqs :
    (r2 \in reqs[r1].overlap /\ reqs[r1].pc = "done" /\ reqs[r2].pc = "done")
      => reqs[r1].by = reqs[r2].by

\* C22: the dedup ledger holds a url only while the upstream fetch it points
\* at, a fetch of that url, is unsettled; every unsettled fetch has its entry
\* (so the entry is there before anyone awaits the fetch); every call and the
\* worker await only fetches that are in the ledger; and a settled fetch,
\* successful or failed, is not in the ledger.
C22_DedupLedger ==
  /\ \A u \in Urls :
       inFlight[u] # 0 => fetches[inFlight[u]].st = "inflight" /\ fetches[inFlight[u]].url = u
  /\ \A F \in FetchIds :
       /\ fetches[F].st = "inflight" => inFlight[fetches[F].url] = F
       /\ fetches[F].st \in {"ok", "fail"} => inFlight[fetches[F].url] # F
  /\ \A r \in Reqs :
       reqs[r].pc = "waiting" => inFlight[reqs[r].url] = reqs[r].awaiting
  /\ worker.pc \in {"fetching", "joined"} => inFlight[fetches[worker.fetch].url] = worker.fetch

\* a fetch has succeeded and a fetch has failed, the ledger is empty and no
\* fetch is unsettled
C22_Witness ==
  /\ \E F, G \in FetchIds : fetches[F].st = "ok" /\ fetches[G].st = "fail"
  /\ \A F \in FetchIds : fetches[F].st # "inflight"
  /\ \A u \in Urls : inFlight[u] = 0

\* C23: with queuing enabled the queue holds the calls in arrival order and
\* the worker takes them from its head, at most one upstream fetch being
\* unsettled; an item whose url is in the image cache when it is taken is
\* resolved from the cache and no fetch for that url is started; and once an
\* item has caused an upstream fetch, no further item is taken before the
\* worker has waited the delay.
C23_QueueWorkerProtocol ==
  [][icfg.queueEnabled =>
       /\ \A i, j \in 1..Len(items') : i < j => items'[i] < items'[j]
       /\ \E k \in 0..Len(items) + 1 :
            \/ items' = SubSeq(items, k + 1, Len(items))
            \/ \E r \in Reqs : items' = SubSeq(Append(items, r), k + 1, Len(items) + 1)
       /\ \A F, G \in FetchIds :
            (fetches'[F].st = "inflight" /\ fetches'[G].st = "inflight") => F = G
       /\ \A r \in Reqs :
            ((\E i \in 1..Len(items) : items[i] = r) /\ ~(\E i \in 1..Len(items') : items'[i] = r)
               /\ imageCache[reqs[r].url].present
               /\ ~(imageCache[reqs[r].url].expires < NowMs)) =>
              /\ reqs'[r].pc = "done" /\ reqs'[r].kind = "ok"
              /\ reqs'[r].by = imageCache[reqs[r].url].by
              /\ nFetches' > nFetches => fetches'[nFetches'].url # reqs[r].url
       /\ \A r \in Reqs :
            (/\ ~(\E i \in 1..Len(items') : items'[i] = r)
             /\ \/ \E i \in 1..Len(items) : items[i] = r
                \/ reqs[r].pc = "idle" /\ reqs'[r].pc = "queued"
             /\ nFetches >= 1) =>
              worker.pc = "sleeping"
    ]_vars

\* C33: with queuing enabled at most one worker loop is active (isProcessing
\* is set exactly while the one loop is suspended in an await), at most one
\* upstream fetch, of whatever url, is unsettled, it is the fetch the worker
\* awaits, and the dedup ledger holds at most one entry.
C33_PipelineSerialized ==
  icfg.queueEnabled =>
    /\ Cardinality({F \in FetchIds : fetches[F].st = "inflight"}) <= 1
    /\ Cardinality({u \in Urls : inFlight[u] # 0}) <= 1
    /\ isProcessing <=> worker.pc # "idle"
    /\ \A F \in FetchIds :
         fetches[F].st = "inflight" => worker.pc = "fetching" /\ worker.fetch = F
    /\ worker.pc = "fetching" => fetches[worker.fetch].st = "inflight"
    /\ worker.pc # "joined"

\* the worker awaits the fetch of one url while a call for the other url sits
\* in the queue and a third call has joined the fetch through the ledger
C33_Witness ==
  /\ icfg.queueEnabled /\ worker.pc = "fetching"
  /\ \E r, q \in Reqs :
       /\ items = <<r>> /\ reqs[r].url # fetches[worker.fetch].url
       /\ reqs[q].pc = "waiting" /\ reqs[q].awaiting = worker.fetch

\* every upstream fetch eventually settles and every sleep eventually ends
SpecImageLive ==
  /\ SpecImage
  /\ WF_vars(\E F \in FetchIds, ok \in BOOLEAN : FetchReturn(F, ok))
  /\ WF_vars(SleepDone)

\* C34: whenever the queue is non-empty the worker loop is active, suspended
\* in an await; provided every upstream fetch settles, every queued request
\* is eventually resolved or rejected, a settled request is never settled
\* again, and isProcessing eventually returns to false.
C34_QueueLiveness ==
  /\ [](items # <<>> => isProcessing /\ worker.pc \in {"fetching", "joined", "sleeping"})
  /\ \A r \in Reqs : (reqs[r].pc = "queued") ~> (reqs[r].pc = "done")
  /\ isProcessing ~> ~isProcessing
  /\ [][\A r \in Reqs : reqs[r].pc = "done" => reqs'[r] = reqs[r]]_vars

\* two queued requests for different urls have been settled by two fetches,
\* one resolved and one rejected, and the worker loop has ended
C34_Witness ==
  /\ icfg.queueEnabled /\ ~isProcessing /\ items = <<>> /\ nFetches = 2
  /\ \E r, q \in Reqs :
       /\ reqs[r].pc = "done" /\ reqs[r].kind = "ok" /\ reqs[r].by = 1
       /\ reqs[q].pc = "done" /\ reqs[q].kind = "err" /\ reqs[q].by = 2
       /\ reqs[r].url # reqs[q].url

\* ================================================== HanimeUserApi: steps
\* ------------------------------------------------- variants of the object
\* a refresh test that lets a session with exactly the buffer left pass
_needsRefreshStrict(a) ==
  IF a.expSec = 0 THEN TRUE
  ELSE (a.expSec - (uNowMs \div 1000)) < RefreshBufferSeconds

\* a login that stores the new token and keeps the old expiry
loginKeepsExpiry(a, sessionToken, sessionTokenExpireTimeUnix) ==
  [a EXCEPT !.token = sessionToken]

\* ------------------------------------------------------------ the object
\* _needsRefresh: no expiry known, or at most the buffer left until expiry;
\* currentTimeUnix = Math.floor(Date.now() / 1000)
_needsRefresh(a) ==
  IF a.expSec = 0 THEN TRUE
  ELSE LET currentTimeUnix == uNowMs \div 1000
           timeUntilExpiration == a.expSec - currentTimeUnix
       IN timeUntilExpiration <= RefreshBufferSeconds

\* !this.email || !this.password is false
HasStoredCredentials(a) == a.email # "" /\ a.password # ""

\* login(this.email, this.password) answered with sessionToken and expiry:
\* credentials and expiry are stored, then the client is replaced by one
\* holding the new token
login(a, sessionToken, sessionTokenExpireTimeUnix) ==
  [a EXCEPT !.email = a.email, !.password = a.password,
            !.expSec = sessionTokenExpireTimeUnix, !.token = sessionToken]

\* getVideoDetails settles as client.getHentaiVideo does
SettleAs(data) == IF data = "ok" THEN "resolved" ELSE "rejected"

\* getVideoDetails(videoId) up to its first network await: either the login
\* of _ensureValidSession or client.getHentaiVideo
GetVideoDetails ==
  /\ upc = "idle"
  /\ uCalls < MaxApiCalls
  /\ uCalls' = uCalls + 1
  /\ ucall' = NoCall
  /\ IF _needsRefresh(uapi) /\ HasStoredCredentials(uapi)
     THEN upc' = "refreshing" /\ uLogins' = uLogins + 1
     ELSE upc' = "fetching" /\ uLogins' = uLogins
  /\ UNCHANGED <<uapi, uNowMs, ucs>>
  /\ UNCHANGED <<now, sessVars, cacheVars, imgVars, retryVars, clearVars, hashVars, streamVars>>

\* the login of _ensureValidSession answers; a failure is swallowed
\* (return false) and getVideoDetails goes on to client.getHentaiVideo
RefreshReturn(ok, off) ==
  /\ upc = "refreshing"
  /\ LET exp == (uNowMs \div 1000) + off IN
     IF ok
     THEN /\ uapi' = login(uapi, uLogins + 1, exp)
          /\ ucall' = [ucall EXCEPT !.refresh = "ok", !.newExp = exp]
     ELSE /\ uapi' = uapi
          /\ ucall' = [ucall EXCEPT !.refresh = "fail"]
  /\ upc' = "fetching"
  /\ UNCHANGED <<uLogins, uCalls, uNowMs, ucs>>
  /\ UNCHANGED <<now, sessVars, cacheVars, imgVars, retryVars, clearVars, hashVars, streamVars>>

\* client.getHentaiVideo answers
DataReturn(ok) ==
  /\ upc = "fetching"
  /\ LET data == IF ok THEN "ok" ELSE "fail" IN
     ucall' = [ucall EXCEPT !.data = data, !.outcome = SettleAs(data)]
  /\ upc' = "idle"
  /\ UNCHANGED <<uapi, uLogins, uCalls, uNowMs, ucs>>
  /\ UNCHANGED <<now, sessVars, cacheVars, imgVars, retryVars, clearVars, hashVars, streamVars>>

\* time passes
TickApi ==
  /\ uNowMs < MaxApiTicks * ApiTickMs
  /\ uNowMs' = uNowMs + ApiTickMs
  /\ UNCHANGED <<uapi, upc, ucall, uLogins, uCalls, ucs>>
  /\ UNCHANGED <<now, sessVars, cacheVars, imgVars, retryVars, clearVars, hashVars, streamVars>>

InitUserApi ==
  /\ now = 0
  /\ IdleSession
  /\ IdleCache
  /\ IdleImage
  /\ IdleRetry
  /\ IdleClear
  /\ IdleHash
  /\ IdleStream
  /\ uapi \in {UserApi(t, c[1], c[2], e) :
                  t \in InitTokens, c \in InitApiCreds, e \in InitExpirySec}
  /\ upc = "idle"
  /\ ucall = NoCall
  /\ uLogins = 0
  /\ uCalls = 0
  /\ uNowMs = 0
  /\ ucs = [c \in 1..MaxOverlap |-> NoOverlapCall]

NextUserApi ==
  \/ GetVideoDetails
  \/ \E ok \in BOOLEAN, off \in RefreshOffsetsSec : RefreshReturn(ok, off)
  \/ \E ok \in BOOLEAN : DataReturn(ok)
  \/ TickApi

SpecUserApi == InitUserApi /\ [][NextUserApi]_vars

\* ------------------------------------------- properties of HanimeUserApi
\* C15: a getVideoDetails call on a session with stored credentials starts a
\* refresh login if and only if the expiry is unknown or at most 300 s remain
\* until it; otherwise the data call is issued with no login.  A session
\* with 100 s left refreshes, one with 400 s left does not.
C15_RefreshBoundary ==
  [][(upc = "idle" /\ upc' # "idle" /\ uapi.email # "" /\ uapi.password # "") =>
       LET due == uapi.expSec = 0 \/ (uapi.expSec * 1000) - uNowMs <= 300000
       IN /\ due <=> (upc' = "refreshing" /\ uLogins' = uLogins + 1)
          /\ ~due <=> (upc' = "fetching" /\ uLogins' = uLogins)
          /\ (uapi.expSec * 1000) - uNowMs = 100000 => upc' = "refreshing"
          /\ (uapi.expSec * 1000) - uNowMs = 400000 => upc' = "fetching"
          /\ uapi' = uapi
    ]_vars

\* a session built with 400 s left made its first data call without a login
\* and, 100.5 s later, refreshes before its second one
C15_Witness ==
  /\ upc = "refreshing" /\ uCalls = 2 /\ uLogins = 1
  /\ uapi.expSec = 400 /\ uNowMs = ApiTickMs
  /\ uapi.email = "a" /\ uapi.password = "p"

\* C16: a successful refresh replaces token and expiry of the object and
\* leaves email and password as they were; a failed refresh leaves the whole
\* object as it was; in both cases the data call is issued next, and
\* getVideoDetails settles as the data call does.
C16_RefreshOutcome ==
  [][/\ (upc = "refreshing" /\ upc' # "refreshing") =>
          /\ upc' = "fetching"
          /\ ucall'.refresh \in {"ok", "fail"}
          /\ uapi'.email = uapi.email /\ uapi'.password = uapi.password
          /\ ucall'.refresh = "fail" => uapi' = uapi
          /\ ucall'.refresh = "ok" =>
               /\ uapi'.token # uapi.token /\ uapi'.token = uLogins + 1
               /\ uapi'.expSec = ucall'.newExp
               /\ uapi'.expSec > uNowMs \div 1000
     /\ (upc = "fetching" /\ upc' # "fetching") =>
          /\ upc' = "idle" /\ uapi' = uapi
          /\ ucall'.refresh = ucall.refresh
          /\ ucall'.outcome = "resolved" <=> ucall'.data = "ok"
          /\ ucall'.outcome = "rejected" <=> ucall'.data = "fail"
    ]_vars

\* the first call's refresh succeeded and replaced the token; the second
\* call's refresh failed, the object still holds that token, and the call
\* resolved with the data
C16_Witness ==
  /\ upc = "idle" /\ uCalls = 2 /\ uLogins = 2
  /\ ucall.refresh = "fail" /\ ucall.outcome = "resolved"
  /\ uapi.token = 2 /\ uapi.email = "a" /\ uapi.password = "p"

\* ----------------------- getVideoDetails calls that overlap on one object
\* getVideoDetails(videoId) of call c, up to its first network await
GetVideoDetailsOn(c) ==
  /\ ucs[c].pc = "idle"
  /\ \A d \in 1..MaxOverlap : d < c => ucs[d].pc # "idle"
  /\ IF _needsRefresh(uapi) /\ HasStoredCredentials(uapi)
     THEN /\ uLogins' = uLogins + 1
          /\ ucs' = [ucs EXCEPT ![c] = [@ EXCEPT !.pc = "refreshing", !.login = uLogins + 1]]
     ELSE /\ uLogins' = uLogins
          /\ ucs' = [ucs EXCEPT ![c].pc = "fetching"]
  /\ UNCHANGED <<uapi, upc, ucall, uCalls, uNowMs>>
  /\ UNCHANGED <<now, sessVars, cacheVars, imgVars, retryVars, clearVars, hashVars, streamVars>>

\* the login of call c's _ensureValidSession answers: login stores the
\* expiry, _ensureValidSession replaces the client in the same turn (login
\* number n answers with token n + 1); a failure changes nothing
RefreshReturnOn(c, ok, off) ==
  /\ ucs[c].pc = "refreshing"
  /\ LET exp == (uNowMs \div 1000) + off IN
     IF ok
     THEN /\ uapi' = login(uapi, ucs[c].login + 1, exp)
          /\ ucs' = [ucs EXCEPT ![c] = [@ EXCEPT !.pc = "fetching", !.newExp = exp]]
     ELSE /\ uapi' = uapi
          /\ ucs' = [ucs EXCEPT ![c].pc = "fetching"]
  /\ UNCHANGED <<upc, ucall, uLogins, uCalls, uNowMs>>
  /\ UNCHANGED <<now, sessVars, cacheVars, imgVars, retryVars, clearVars, hashVars, streamVars>>

\* client.getHentaiVideo of call c answers
DataReturnOn(c) ==
  /\ ucs[c].pc = "fetching"
  /\ ucs' = [ucs EXCEPT ![c].pc = "done"]
  /\ UNCHANGED <<uapi, upc, ucall, uLogins, uCalls, uNowMs>>
  /\ UNCHANGED <<now, sessVars, cacheVars, imgVars, retryVars, clearVars, hashVars, streamVars>>

NextUserApiOverlap ==
  \/ \E c \in 1..MaxOverlap : GetVideoDetailsOn(c)
  \/ \E c \in 1..MaxOverlap, ok \in BOOLEAN, off \in RefreshOffsetsSec : RefreshReturnOn(c, ok, off)
  \/ \E c \in 1..MaxOverlap : DataReturnOn(c)
  \/ TickApi

SpecUserApiOverlap == InitUserApi /\ [][NextUserApiOverlap]_vars

\* C38: at most one refresh login of the object is in flight at a time, and
\* once no refresh is in flight the token and the expiry of the object come
\* from the same login answer.
C38_RefreshSingleFlight ==
  /\ Cardinality({c \in 1..MaxOverlap : ucs[c].pc = "refreshing"}) <= 1
  /\ (\A c \in 1..MaxOverlap : ucs[c].pc # "refreshing") =>
       \A c \in 1..MaxOverlap :
         (ucs[c].login # 0 /\ uapi.token = ucs[c].login + 1) => uapi.expSec = ucs[c].newExp

\* ============================================== retried requests: steps
\* ------------------------------------------------ variants of the retry
\* a retry test that retries after every error
ShouldRetryAnyError(status, attempt, maxRetries) == attempt < maxRetries

\* ------------------------------------------------------------ the loop
\* status === 403 && attempt < maxRetries
ShouldRetry(status, attempt, maxRetries) == status = 403 /\ attempt < maxRetries

\* lastFailure && Date.now() - lastFailure < 60000, at time t
RecentlyBlocked(t) == failedRequests # 0 /\ t - failedRequests < 60

\* [5000, 15000, 30000][attempt] || 30000, in seconds
BackoffDelay(attempt) == IF attempt = 0 THEN 5 ELSE IF attempt = 1 THEN 15 ELSE 30

\* The body of the loop up to its first await.  ImageFetchService.fetch
\* first sleeps 2-5 s when the url failed with 403 less than 60 s ago
\* (recent); then the request is issued.
BeginAttempt(r, recent) ==
  IF r.svc = "image" /\ recent
  THEN [r EXCEPT !.pc = "preWait"]
  ELSE [r EXCEPT !.pc = "requesting", !.attempts = @ + 1]

\* retryRequest(requestFn, context, maxRetries) or fetch(imageUrl, imagePath,
\* maxRetries) is called, the previous call having ended: attempt = 0
StartRetry(svc, maxRetries, gap) ==
  /\ rq.pc \in {"idle", "done"}
  /\ rq.call < MaxRetryCalls
  /\ rnow' = rnow + gap
  /\ rq' = BeginAttempt([NoRetry EXCEPT !.call = rq.call + 1, !.svc = svc,
                                        !.maxRetries = maxRetries], RecentlyBlocked(rnow'))
  /\ UNCHANGED <<failedRequests, last403>>
  /\ UNCHANGED <<now, sessVars, cacheVars, imgVars, apiVars, clearVars, hashVars, streamVars>>

\* the sleep before a request to a recently blocked url is over
PreWaitDone(wait) ==
  /\ rq.pc = "preWait"
  /\ rnow' = rnow + wait
  /\ rq' = [rq EXCEPT !.pc = "requesting", !.attempts = @ + 1]
  /\ UNCHANGED <<failedRequests, last403>>
  /\ UNCHANGED <<now, sessVars, cacheVars, imgVars, apiVars, clearVars, hashVars, streamVars>>

\* the request answers: a result is returned; a 403 before the last attempt
\* starts the backoff sleep; every other error is rethrown
Response(status, took) ==
  /\ rq.pc = "requesting"
  /\ rnow' = rnow + took
  /\ last403' = IF rq.svc # "image" THEN last403
                ELSE IF status = 403 THEN rnow'
                ELSE IF status = 200 THEN 0 ELSE last403
  /\ LET r == [rq EXCEPT !.statuses = Append(@, status)] IN
     IF status = 200
     THEN /\ rq' = [r EXCEPT !.pc = "done", !.outcome = "returned"]
          /\ failedRequests' = IF rq.svc = "image" THEN 0 ELSE failedRequests
     ELSE IF ShouldRetry(status, rq.attempt, rq.maxRetries)
     THEN /\ rq' = [r EXCEPT !.pc = "backoff"]
          /\ failedRequests' = IF rq.svc = "image" THEN rnow' ELSE failedRequests
     ELSE /\ rq' = [r EXCEPT !.pc = "done", !.outcome = "thrown", !.thrown = status]
          /\ UNCHANGED failedRequests
  /\ UNCHANGED <<now, sessVars, cacheVars, imgVars, apiVars, clearVars, hashVars, streamVars>>

\* the backoff sleep is over: continue, attempt++, and the loop condition
\* attempt <= maxRetries decides between another attempt and falling out of
\* the loop (the function then returns undefined)
BackoffDone(jitter) ==
  /\ rq.pc = "backoff"
  /\ rnow' = rnow + BackoffDelay(rq.attempt) + jitter
  /\ LET r == [rq EXCEPT !.attempt = @ + 1] IN
     rq' = IF r.attempt <= r.maxRetries
           THEN BeginAttempt(r, RecentlyBlocked(rnow'))
           ELSE [r EXCEPT !.pc = "done", !.outcome = "returned"]
  /\ UNCHANGED <<failedRequests, last403>>
  /\ UNCHANGED <<now, sessVars, cacheVars, imgVars, apiVars, clearVars, hashVars, streamVars>>

InitRetry ==
  /\ now = 0
  /\ IdleSession
  /\ IdleCache
  /\ IdleImage
  /\ IdleApi
  /\ IdleClear
  /\ IdleHash
  /\ IdleStream
  /\ rq = NoRetry
  /\ failedRequests = 0
  /\ rnow = 1
  /\ last403 = 0

\* the steps that do not depend on a caller: requests answer, timers fire
\* (times in seconds: the cooldown is 2000 + Math.random() * 3000 ms, a
\* request takes up to the 10 s timeout, the jitter is Math.random() * 2000 ms)
RetryProgress ==
  \/ \E wait \in {2, 5} : PreWaitDone(wait)
  \/ \E status \in Statuses, took \in {0, 10} : Response(status, took)
  \/ \E jitter \in {0, 2} : BackoffDone(jitter)

NextRetry ==
  \* gap: the seconds between the end of a call and the next call
  \/ \E svc \in RetryServices, n \in MaxRetriesValues, gap \in {0, 40, 65} :
       StartRetry(svc, n, gap)
  \/ RetryProgress

\* every request is answered (or times out) and every timer fires
SpecRetry == InitRetry /\ [][NextRetry]_vars /\ WF_vars(RetryProgress)

\* --------------------------------------- properties of retried requests
\* C17: a call issues at most maxRetries + 1 requests; a further request is
\* issued only after a 403; an error other than 403 is rethrown after the
\* attempt that produced it and a 403 on the last attempt is rethrown; a
\* call returns only what a request answered; and every call ends.
C17_BoundedRetry ==
  /\ [](/\ rq.attempts <= rq.maxRetries + 1
        /\ Len(rq.statuses) <= rq.attempts
        /\ \A i \in 1..Len(rq.statuses) :
             i < rq.attempts => rq.statuses[i] = 403
        /\ \A i \in 1..Len(rq.statuses) :
             (rq.statuses[i] # 403 \/ i = rq.maxRetries + 1) =>
               /\ rq.pc = "done" /\ i = Len(rq.statuses) /\ i = rq.attempts
               /\ IF rq.statuses[i] = 200
                  THEN rq.outcome = "returned"
                  ELSE rq.outcome = "thrown" /\ rq.thrown = rq.statuses[i]
        /\ rq.pc = "done" =>
             /\ rq.attempts >= 1 /\ Len(rq.statuses) = rq.attempts
             /\ rq.outcome = "returned" <=> rq.statuses[rq.attempts] = 200)
  /\ \A n \in 1..MaxRetryCalls :
       (rq.call = n /\ rq.pc # "done") ~> (rq.call = n /\ rq.pc = "done")

\* with maxRetries = 2 all three requests were answered 403 and the third
\* 403 was rethrown
C17_Witness ==
  /\ rq.pc = "done" /\ rq.maxRetries = 2 /\ rq.attempts = 3 /\ rq.svc = "image"
  /\ rq.statuses = <<403, 403, 403>>
  /\ rq.outcome = "thrown" /\ rq.thrown = 403

\* C26: a request for the url is sent to the CDN without a preceding
\* cooldown only when no attempt for it was answered 403 in the 60 s before
\* the attempt began (or a fetch of it has succeeded since); and a cooldown
\* is waited only when an attempt was answered 403 in those 60 s with no
\* success since.
C26_CooldownAfterBlocking ==
  [][rq'.svc = "image" =>
       /\ (rq'.pc = "requesting" /\ rq.pc \notin {"requesting", "preWait"}) =>
            (last403 = 0 \/ rnow' - last403 >= 60)
       /\ (rq'.pc = "preWait" /\ rq.pc # "preWait") =>
            (last403 # 0 /\ rnow' - last403 < 60)
    ]_vars

\* ==================================================== clearCache: steps
\* the session tokens the cache holds under hash h
CachedTokens(h) ==
  {e.token : e \in {e \in {sL1[h], sL2[h]} : e.present /\ ~(NowMs > e.exp)}}

\* clearCache(email, password): sessionCache.del(cacheKey) is started and not
\* awaited; the memory store deletes in this turn, the remote delete is on
\* its way.  With no cache, or an empty argument, nothing happens.
ClearCache(c) ==
  /\ cleared.n < MaxClears
  /\ LET h == HashOf(c) IN
     IF MissingCredentials(c)
     THEN /\ cleared' = [cleared EXCEPT !.n = @ + 1]
          /\ UNCHANGED <<sL1, pendingDel>>
     ELSE /\ cleared' = [n |-> cleared.n + 1, h |-> h, toks |-> CachedTokens(h),
                         idle |-> {p \in Callers : pc[p] = "idle"}]
          /\ sL1' = IF scfg.cacheOn THEN [sL1 EXCEPT ![h] = NoEntry] ELSE sL1
          /\ pendingDel' = IF scfg.cacheOn /\ scfg.remoteOn
                            THEN pendingDel \cup {h} ELSE pendingDel
  /\ UNCHANGED <<now, scfg, pc, cred, got, awaiting, res, initPromises, logins,
                 nLogins, sL2, sawLogin, settledAtCall>>
  /\ UNCHANGED <<cacheVars, imgVars, apiVars, retryVars, hashVars, streamVars>>

\* the remote store executes the delete; a failure is caught and logged
\* ("Error clearing user session cache")
ClearDelExec(h, ok) ==
  /\ h \in pendingDel
  /\ pendingDel' = pendingDel \ {h}
  /\ sL2' = IF ok THEN [sL2 EXCEPT ![h] = NoEntry] ELSE sL2
  /\ UNCHANGED <<now, scfg, pc, cred, got, awaiting, res, initPromises, logins,
                 nLogins, sL1, sawLogin, settledAtCall, cleared>>
  /\ UNCHANGED <<cacheVars, imgVars, apiVars, retryVars, hashVars, streamVars>>

InitClear ==
  /\ now = 0
  /\ scfg \in {[cacheOn |-> TRUE, remoteOn |-> FALSE, foreign |-> FALSE],
               [cacheOn |-> TRUE, remoteOn |-> TRUE, foreign |-> FALSE]}
  /\ SessionStart
  /\ IdleCache
  /\ IdleImage
  /\ IdleExt

NextClear ==
  \/ \E p \in Callers, c \in ValidCreds : Call(p, c)
  \/ \E p \in Callers, ok \in BOOLEAN : RemoteGetExec(p, ok)
  \/ \E p \in Callers : RemoteGetReturn(p)
  \/ \E L \in LoginIds, ok \in BOOLEAN, off \in ExpiryOffsetsSec : LoginResponse(L, ok, off)
  \/ \E L \in LoginIds, ok \in BOOLEAN : SetReturn(L, ok)
  \/ \E c \in CredPairs : ClearCache(c)
  \/ \E h \in Hashes, ok \in BOOLEAN : ClearDelExec(h, ok)

SpecClear == InitClear /\ [][NextClear]_vars

\* ---------------------------------------------- properties of clearCache
\* C18: once clearCache has been called for a pair whose session is cached,
\* a getUserApi call for that pair issued afterwards is not answered with a
\* session rebuilt from an entry the cache held when clearCache was called.
C18_ClearCacheForgets ==
  \A p \in cleared.idle :
    (pc[p] = "done" /\ HashOf(cred[p]) = cleared.h /\ res[p].kind = "ok" /\ res[p].obj < 0)
      => res[p].token \notin cleared.toks

\* ================================================= key derivation: steps
\* _getCacheKey: `${USER_SESSION_KEY_PREFIX}${credentialsHash}`
_getCacheKey(credentialsHash) == "user-session:" \o credentialsHash

\* the key getUserApi, clearCache and _initializeUserApi use for a pair
KeyOfPair(c) == _getCacheKey(_getCredentialsHash(c[1], c[2]))

\* the keys of both pairs are derived
DeriveKeys ==
  /\ hkeys = <<>>
  /\ hkeys' = <<KeyOfPair(hpairs[1]), KeyOfPair(hpairs[2])>>
  /\ UNCHANGED <<hpairs, creqs, ckeys, prefetchVars>>
  /\ UNCHANGED <<now, sessVars, cacheVars, imgVars, apiVars, retryVars, clearVars, streamVars>>

\* the keys are derived once more
DeriveAgain ==
  /\ hkeys # <<>>
  /\ hkeys' = <<KeyOfPair(hpairs[1]), KeyOfPair(hpairs[2])>>
  /\ UNCHANGED <<hpairs, creqs, ckeys, prefetchVars>>
  /\ UNCHANGED <<now, sessVars, cacheVars, imgVars, apiVars, retryVars, clearVars, streamVars>>

InitHash ==
  /\ now = 0
  /\ IdleSession
  /\ IdleCache
  /\ IdleImage
  /\ IdleApi
  /\ IdleRetry
  /\ IdleClear
  /\ IdleStream
  /\ hpairs \in (CredStrings \X CredStrings) \X (CredStrings \X CredStrings)
  /\ hkeys = <<>>
  /\ creqs = <<>>
  /\ ckeys = <<>>
  /\ IdlePrefetch

NextHash ==
  \/ DeriveKeys
  \/ DeriveAgain

SpecHash == InitHash /\ [][NextHash]_vars

\* ------------------------------------------ properties of key derivation
\* C19: the key is a function of the pair and is injective: whenever the
\* keys of two pairs have been derived, equal pairs have equal keys and
\* distinct pairs have distinct keys.
C19_KeyDeterministicInjective ==
  hkeys # <<>> => (hkeys[1] = hkeys[2] <=> hpairs[1] = hpairs[2])

\* ================================================ StreamHandler: steps
\* ------------------------------------------------ variants of the handler
\* an id test that accepts every id that is present
isHanimeIdAny(id) == id # <<>>

\* ------------------------------------------------------------ the handler
\* isHanimeId: a string that starts with the addon prefix and ':'
isHanimeId(id) == id # <<>> /\ id[1] = "hanime" /\ Len(id) >= 2

\* stripAddonPrefix
stripAddonPrefix(id) == IF id # <<>> /\ id[1] = "hanime" /\ Len(id) >= 2 THEN Tail(id) ELSE id

\* _extractVideoId: the episode slug of "series:base:episode", null (<<>>)
\* for the parent "series:base", the id itself otherwise
_extractVideoId(strippedId) ==
  IF strippedId[1] = "series"
  THEN IF Len(strippedId) = 3 THEN <<strippedId[3]>>
       ELSE IF Len(strippedId) = 2 THEN <<>>
       ELSE strippedId
  ELSE strippedId

\* handle is over: it resolved with val
StreamDone(r, val, decorated) ==
  [r EXCEPT !.pc = "done",
            !.result = [kind |-> "resolved", val |-> val, decorated |-> decorated]]

\* return emptyResponse('stream'), from an early return or from the catch
\* block at the end of handle
EmptyStream(r) == StreamDone(r, emptyResponse("stream"), FALSE)

\* _cacheWrap after method() returned data: it is stored when cacheable, and
\* handle returns { ...streams, cacheMaxAge, staleRevalidate }
AfterCompute(r, data) ==
  IF stcfg.cacheOn /\ _shouldCache(data)
  THEN /\ streamStore' = [streamStore EXCEPT ![r.id] = Slot(data, TtlOf("stream"))]
       /\ sreq' = StreamDone([r EXCEPT !.writes = @ + 1], data, TRUE)
  ELSE /\ streamStore' = streamStore
       /\ sreq' = StreamDone(r, data, TRUE)

\* the computeFn of _getStreams up to its first await: a parent series id
\* has no streams of its own, every other id asks the upstream
Compute(r) ==
  IF _extractVideoId(stripAddonPrefix(r.id)) = <<>>
  THEN AfterCompute(r, emptyResponse("stream"))
  ELSE sreq' = [r EXCEPT !.pc = "computing"] /\ streamStore' = streamStore

\* handle(args) up to its first await
Handle(id, c) ==
  /\ sreq.pc \in {"idle", "done"}
  /\ sreq.n < MaxStreamReqs
  /\ LET r == [NoStreamReq EXCEPT !.n = sreq.n + 1, !.id = id, !.email = c[1],
                                  !.password = c[2], !.before = streamStore,
                                  !.emails = Append(sreq.emails, c[1])]
     IN sreq' = IF id = <<>> THEN EmptyStream(r)
                ELSE IF ~isHanimeId(id) THEN EmptyStream(r)
                ELSE IF c[1] = "" \/ c[2] = "" THEN EmptyStream(r)
                ELSE [r EXCEPT !.pc = "authing"]
  /\ UNCHANGED <<stcfg, streamStore>>
  /\ UNCHANGED <<now, sessVars, cacheVars, imgVars, apiVars, retryVars, clearVars, hashVars>>

\* userApiManager.getUserApi settles: a rejection is rethrown and caught by
\* handle; with a user API, _getStreams calls cacheWrapStream, which reads
\* the cache and runs the computeFn on a miss
AuthReturn(ok) ==
  /\ sreq.pc = "authing"
  /\ IF ~ok
     THEN /\ sreq' = EmptyStream([sreq EXCEPT !.auth = "fail"])
          /\ UNCHANGED streamStore
     ELSE LET r == [sreq EXCEPT !.auth = "ok"] IN
          IF ~stcfg.cacheOn THEN Compute(r)
          ELSE IF Hit(streamStore[r.id])
          THEN /\ sreq' = StreamDone([r EXCEPT !.reads = @ + 1],
                                     streamStore[r.id].val, TRUE)
               /\ UNCHANGED streamStore
          ELSE Compute([r EXCEPT !.reads = @ + 1])
  /\ UNCHANGED stcfg
  /\ UNCHANGED <<now, sessVars, cacheVars, imgVars, apiVars, retryVars, clearVars, hashVars>>

\* the upstream calls of _getVideoStreams are over: the computeFn returns
\* or throws (a throw leaves _cacheWrap and is caught by handle)
ComputeReturn(up) ==
  /\ sreq.pc = "computing"
  /\ LET out == _getStreams(up, sreq.n) IN
     IF out.throws
     THEN sreq' = EmptyStream(sreq) /\ UNCHANGED streamStore
     ELSE AfterCompute(sreq, out.val)
  /\ UNCHANGED stcfg
  /\ UNCHANGED <<now, sessVars, cacheVars, imgVars, apiVars, retryVars, clearVars, hashVars>>

InitStream ==
  /\ now = 0
  /\ IdleSession
  /\ IdleCache
  /\ IdleImage
  /\ IdleApi
  /\ IdleRetry
  /\ IdleClear
  /\ IdleHash
  /\ stcfg \in {[cacheOn |-> FALSE, seeded |-> FALSE],
                [cacheOn |-> TRUE, seeded |-> FALSE],
                [cacheOn |-> TRUE, seeded |-> TRUE]}
  /\ sreq = NoStreamReq
  /\ streamStore = [id \in StreamIds |->
                      IF stcfg.seeded
                      THEN Slot(Payload("object", MaxStreamReqs + 1), TtlOf("stream"))
                      ELSE NoSlot]

NextStream ==
  \/ \E id \in StreamIds, c \in StreamCreds : Handle(id, c)
  \/ \E ok \in BOOLEAN : AuthReturn(ok)
  \/ \E up \in UpstreamOf("stream") : ComputeReturn(up)

SpecStream == InitStream /\ [][NextStream]_vars

\* ------------------------------------------- properties of StreamHandler
\* C20: handle never rejects; and a request with no id, with an id that is
\* not an addon id, with a missing email or password, or whose getUserApi
\* failed resolves with the bare empty stream response, having neither read
\* nor written the stream cache, which is as it was when the request came.
C20_UnsatisfiableStreamRequest ==
  /\ sreq.result.kind \in {"none", "resolved"}
  /\ sreq.pc = "done" => sreq.result.kind = "resolved"
  /\ (/\ sreq.pc = "done"
      /\ \/ sreq.id = <<>>
         \/ sreq.id[1] # "hanime"
         \/ sreq.email = "" \/ sreq.password = ""
         \/ sreq.auth = "fail") =>
       /\ sreq.result.val = [t |-> "object", n |-> 1, metaNull |-> FALSE, id |-> 0]
       /\ ~sreq.result.decorated
       /\ sreq.reads = 0 /\ sreq.writes = 0
       /\ streamStore = sreq.before

\* the first request stored streams for an id; the second request for the
\* same id failed to authenticate and got the empty response while the
\* cache still holds those streams
C20_Witness ==
  /\ sreq.pc = "done" /\ sreq.n = 2 /\ sreq.auth = "fail"
  /\ streamStore[sreq.id].present /\ streamStore[sreq.id].val.id = 1
  /\ sreq.result.val = emptyResponse("stream") /\ sreq.reads = 0

\* C36: the streams returned to an authenticated request were computed with
\* the session of the requesting user: a response that a request of this
\* run computed is only ever returned to requests of the user it was
\* computed for.
C36_StreamsOfOwnSession ==
  (/\ sreq.pc = "done" /\ sreq.auth = "ok"
   /\ sreq.result.val.id \in 1..MaxStreamReqs)
    => sreq.emails[sreq.result.val.id] = sreq.email

\* ============================================ catalog cache keys: steps
\* JSON.stringify of an object whose values are strings: the properties in
\* insertion order
RECURSIVE JsonProps(_)
JsonProps(extra) ==
  IF extra = <<>> THEN ""
  ELSE "\"" \o extra[1][1] \o "\":\"" \o extra[1][2] \o "\""
       \o (IF Len(extra) > 1 THEN "," ELSE "") \o JsonProps(Tail(extra))

\* `catalog:${catalogId}:${JSON.stringify(extra || {})}`
buildCacheKey(catalogId, extra) ==
  "catalog:" \o catalogId \o ":" \o "{" \o JsonProps(extra) \o "}"

\* the keys of both requests are built
BuildKeys ==
  /\ ckeys = <<>>
  /\ ckeys' = <<buildCacheKey(creqs[1].id, creqs[1].extra),
                buildCacheKey(creqs[2].id, creqs[2].extra)>>
  /\ UNCHANGED <<hpairs, hkeys, creqs, prefetchVars>>
  /\ UNCHANGED <<now, sessVars, cacheVars, imgVars, apiVars, retryVars, clearVars, streamVars>>

\* the keys are built once more
BuildAgain ==
  /\ ckeys # <<>>
  /\ ckeys' = <<buildCacheKey(creqs[1].id, creqs[1].extra),
                buildCacheKey(creqs[2].id, creqs[2].extra)>>
  /\ UNCHANGED <<hpairs, hkeys, creqs, prefetchVars>>
  /\ UNCHANGED <<now, sessVars, cacheVars, imgVars, apiVars, retryVars, clearVars, streamVars>>

InitCatalogKey ==
  /\ now = 0
  /\ IdleSession
  /\ IdleCache
  /\ IdleImage
  /\ IdleApi
  /\ IdleRetry
  /\ IdleClear
  /\ IdleStream
  /\ hpairs = <<NoCred, NoCred>>
  /\ hkeys = <<>>
  \* two catalog ids of the manifest
  /\ creqs \in [id : {"hanime", "recent"}, extra : CatalogExtras]
               \X [id : {"hanime", "recent"}, extra : CatalogExtras]
  /\ ckeys = <<>>
  /\ IdlePrefetch

NextCatalogKey ==
  \/ BuildKeys
  \/ BuildAgain

SpecCatalogKey == InitCatalogKey /\ [][NextCatalogKey]_vars

\* ------------------------------------- properties of catalog cache keys
\* C27: whenever the keys of two catalog requests have been built, the keys
\* are equal exactly when the requests have the same catalog id and the same
\* extra parameters, that is the same set of name/value pairs.
C27_CatalogKeyOfRequest ==
  ckeys # <<>> =>
    (ckeys[1] = ckeys[2]
       <=> /\ creqs[1].id = creqs[2].id
           /\ {creqs[1].extra[i] : i \in 1..Len(creqs[1].extra)}
                = {creqs[2].extra[i] : i \in 1..Len(creqs[2].extra)})

\* ======================================== CatalogPrefetchService: steps
\* a busy test that never finds a run in progress
BusyNever(svc) == FALSE

\* if (this.isPrefetching)
Busy(svc) == svc.isPrefetching

\* the end of prefetchCatalog and what prefetchAll does after it: the
\* results are combined and, when there are any, added to the statistics;
\* an exception (threw) is caught by prefetchAll and counted; the loop over
\* the catalogs is over and isPrefetching is reset
EndOfRun(svc, r, threw) ==
  LET st == svc.prefetchStats
      st2 == IF threw THEN [st EXCEPT !.errors = @ + 1]
             ELSE IF r.totalPages > 0
             THEN [st EXCEPT !.totalPages = @ + r.totalPages, !.catalogsPrefetched = @ + 1]
             ELSE st
  IN [svc EXCEPT !.prefetchStats = st2, !.isPrefetching = FALSE]

\* prefetchCatalog goes on after a page or a batch: the next sequential
\* search, the next batch of parallel searches, or its end
Continue(c, svc, r, threw) ==
  IF threw \/ ~r.hasMore
  THEN /\ pfsvc' = EndOfRun(svc, r, threw)
       /\ pfcalls' = [pfcalls EXCEPT ![c] = [r EXCEPT !.pc = "done", !.threw = threw]]
  ELSE /\ pfsvc' = svc
       /\ pfcalls' = [pfcalls EXCEPT ![c] =
            IF r.page < PrefetchConcurrency
            THEN [r EXCEPT !.pc = "searching", !.reqs = @ + 1]
            ELSE [r EXCEPT !.pc = "batch", !.reqs = @ + PrefetchConcurrency,
                           !.page = @ + PrefetchConcurrency]]

\* prefetchAll(), up to its first await: the search for page 0
PrefetchAll(c) ==
  /\ pfcalls[c].pc = "idle"
  /\ \A d \in 1..MaxPrefetchCalls : d < c => pfcalls[d].pc # "idle"
  /\ IF Busy(pfsvc)
     THEN /\ pfcalls' = [pfcalls EXCEPT ![c] = [@ EXCEPT !.pc = "done", !.skipped = TRUE]]
          /\ pfsvc' = pfsvc
     ELSE /\ pfsvc' = [isPrefetching |-> TRUE, prefetchStats |-> NoStats(c)]
          /\ pfcalls' = [pfcalls EXCEPT ![c] = [@ EXCEPT !.pc = "searching", !.reqs = 1]]
  /\ UNCHANGED <<hpairs, hkeys, creqs, ckeys>>
  /\ UNCHANGED <<now, sessVars, cacheVars, imgVars, apiVars, retryVars, clearVars, streamVars>>

\* a sequential search answers: a page of results is followed by the page
\* delay; no results and a failure end the paging, a failure is counted
SearchReturn(c, out) ==
  /\ pfcalls[c].pc = "searching"
  /\ LET r == pfcalls[c] IN
     IF out = "results"
     THEN /\ pfcalls' = [pfcalls EXCEPT ![c] =
                [r EXCEPT !.pc = "sleeping", !.totalPages = @ + 1, !.page = @ + 1]]
          /\ pfsvc' = pfsvc
     ELSE LET svc == IF out = "fail" THEN [pfsvc EXCEPT !.prefetchStats.errors = @ + 1]
                     ELSE pfsvc
          IN Continue(c, svc, [r EXCEPT !.hasMore = FALSE], out = "throws")
  /\ UNCHANGED <<hpairs, hkeys, creqs, ckeys>>
  /\ UNCHANGED <<now, sessVars, cacheVars, imgVars, apiVars, retryVars, clearVars, streamVars>>

\* the page delay is over
PageDelayDone(c) ==
  /\ pfcalls[c].pc = "sleeping"
  /\ Continue(c, pfsvc, pfcalls[c], FALSE)
  /\ UNCHANGED <<hpairs, hkeys, creqs, ckeys>>
  /\ UNCHANGED <<now, sessVars, cacheVars, imgVars, apiVars, retryVars, clearVars, streamVars>>

\* Promise.all of a batch settles: full pages had results, failed searches
\* rejected (each is counted), the others were empty; paging goes on, after
\* the page delay, only when every search of the batch had results
BatchReturn(c, full, failed, threw) ==
  /\ pfcalls[c].pc = "batch"
  /\ full + failed <= PrefetchConcurrency
  /\ pfcalls[c].page >= MaxPrefetchPages => full < PrefetchConcurrency
  /\ LET r == [pfcalls[c] EXCEPT !.totalPages = @ + full,
                                 !.hasMore = (full = PrefetchConcurrency)]
         svc == [pfsvc EXCEPT !.prefetchStats.errors = @ + failed]
     IN IF r.hasMore /\ ~threw
        THEN /\ pfcalls' = [pfcalls EXCEPT ![c] = [r EXCEPT !.pc = "sleeping"]]
             /\ pfsvc' = svc
        ELSE Continue(c, svc, r, threw)
  /\ UNCHANGED <<hpairs, hkeys, creqs, ckeys>>
  /\ UNCHANGED <<now, sessVars, cacheVars, imgVars, apiVars, retryVars, clearVars, streamVars>>

InitPrefetch ==
  /\ now = 0
  /\ IdleSession
  /\ IdleCache
  /\ IdleImage
  /\ IdleExt

NextPrefetch ==
  \/ \E c \in 1..MaxPrefetchCalls : PrefetchAll(c)
  \/ \E c \in 1..MaxPrefetchCalls, out \in {"results", "empty", "fail", "throws"} :
       SearchReturn(c, out)
  \/ \E c \in 1..MaxPrefetchCalls : PageDelayDone(c)
  \/ \E c \in 1..MaxPrefetchCalls, full \in 0..PrefetchConcurrency,
        failed \in 0..PrefetchConcurrency, threw \in BOOLEAN :
       BatchReturn(c, full, failed, threw)

SpecPrefetch == InitPrefetch /\ [][NextPrefetch]_vars

\* C39: at most one prefetchAll run executes at a time and isPrefetching is
\* set exactly while it does, so it is reset when the run ends, also when
\* prefetching the catalog failed; a prefetchAll call made during a run
\* returns at once, issues no upstream request and leaves the service, its
\* statistics included, as it was.
C39_PrefetchMutualExclusion ==
  [][/\ Cardinality({c \in 1..MaxPrefetchCalls : pfcalls'[c].pc \notin {"idle", "done"}}) <= 1
     /\ pfsvc'.isPrefetching
          <=> \E c \in 1..MaxPrefetchCalls : pfcalls'[c].pc \notin {"idle", "done"}
     /\ \A c \in 1..MaxPrefetchCalls :
          (/\ pfcalls[c].pc = "idle" /\ pfcalls'[c].pc # "idle"
           /\ \E d \in 1..MaxPrefetchCalls : pfcalls[d].pc \notin {"idle", "done"})
            => /\ pfcalls'[c].pc = "done" /\ pfcalls'[c].reqs = 0
               /\ pfsvc' = pfsvc
               /\ \A d \in 1..MaxPrefetchCalls : d # c => pfcalls'[d] = pfcalls[d]
    ]_vars

\* a call made during a run returned without a request; that run ended with
\* an exception of prefetchCatalog, counted as an error, and the flag is
\* reset; the statistics are still those of that run
C39_Witness ==
  \E c, d \in 1..MaxPrefetchCalls :
    /\ c < d /\ pfcalls[c].pc = "done" /\ pfcalls[c].threw
    /\ pfcalls[d].pc = "done" /\ pfcalls[d].skipped /\ pfcalls[d].reqs = 0
    /\ ~pfsvc.isPrefetching
    /\ pfsvc.prefetchStats.lastPrefetch = c /\ pfsvc.prefetchStats.errors >= 1

====
